---- MODULE Spec2Model ----
(***************************************************************************)
(* Model of the blocklist generator (src/main.go): the containment test    *)
(* isIPInCIDR, the whitelist check isIPWhitelisted and the filter          *)
(* writeBlocklistFile.                                                      *)
(*                                                                         *)
(* An entry text is a sequence of one-character strings, so that parsing   *)
(* is a computation on the characters.  An IPv4 address is kept in its     *)
(* 4-byte form (the result of To4), any other address in its 16 bytes; the *)
(* nil IP is the empty sequence.  A uint32 is the      *)
(* pair <<high 16 bits, low 16 bits>>, with arithmetic modulo 2^32.        *)
(* Entry texts are IPv4 text, words that are no address, and, where a      *)
(* specification says so, IPv6 text.                                       *)
(***************************************************************************)
EXTENDS Integers, Sequences, FiniteSets, TLC

VARIABLES pc, ip, cidr, strictMode, covered, panicked,
          whitelist, blocklist, pending, buf, file, err, calls,
          contents, addresses, config, fetched, prev,
          containers, stopCalls, startCalls, nameIdx, restartErr,
          procs

vars == <<pc, ip, cidr, strictMode, covered, panicked,
          whitelist, blocklist, pending, buf, file, err, calls,
          contents, addresses, config, fetched, prev,
          containers, stopCalls, startCalls, nameIdx, restartErr,
          procs>>

cmpVars == <<ip, cidr, strictMode, covered, panicked>>
\* writeBlocklistFile: its arguments, the keys the range has yet to visit,
\* the writer's buffer, the file, the error returned, and the number of
\* calls made
filterVars == <<whitelist, blocklist, pending, buf, file, err, calls>>
\* the argument and the result of parseIPAddresses
parseVars == <<contents, addresses>>
\* main: the decoded configuration, the outcome of each download so far,
\* and the file the run found at the path
mainVars == <<config, fetched, prev>>
\* the containers: which of them run, the stop and start calls made so far,
\* the position of the loop of restartNginxContainers, and its result
dockerVars == <<containers, stopCalls, startCalls, nameIdx, restartErr>>
\* concurrent calls of writeBlocklistFile: for each of them its position,
\* the keys its range has yet to visit, its writer's buffer, its file and
\* the error it returned
concVars == <<procs>>

(***************************************************************************)
(* Bounds of the input universe.                                           *)
(***************************************************************************)
\* third octets 0..MaxThird of the generated addresses 10.0.c.d
MaxThird == 1
\* largest whitelist / blocklist drawn from FilterTexts
MaxWhitelist == 2
MaxBlocklist == 2
\* largest number of lines of a text given to parseIPAddresses
MaxLines == 2
\* largest number of remote whitelists, and of remote blocklists, of a configuration
MaxRemote == 2

(***************************************************************************)
(* Characters and decimal numbers.                                         *)
(***************************************************************************)
Digits == <<"0", "1", "2", "3", "4", "5", "6", "7", "8", "9">>

IsDigit(c) == \E d \in 1..10 : Digits[d] = c

DigitVal(c) == (CHOOSE d \in 1..10 : Digits[d] = c) - 1

RECURSIVE Pow2(_)
Pow2(n) == IF n = 0 THEN 1 ELSE 2 * Pow2(n - 1)

\* index of the first occurrence of character c in s, 0 when there is none
RECURSIVE IndexFrom(_, _, _)
IndexFrom(s, c, i) ==
    IF i > Len(s) THEN 0
    ELSE IF s[i] = c THEN i
    ELSE IndexFrom(s, c, i + 1)

IndexByteString(s, c) == IndexFrom(s, c, 1)

(***************************************************************************)
(* net.ParseIP.  The first '.' or ':' of the text decides how it is read.  *)
(* IPv4 text (netip.parseIPv4): four decimal fields of value at most 255,  *)
(* no leading zero, separated by single dots; kept as its four bytes.      *)
(* IPv6 text (netip.parseIPv6): hexadecimal groups of value at most ffff   *)
(* separated by colons, at most one "::", an IPv4 tail allowed, no zone;   *)
(* kept as its sixteen bytes.                                              *)
(***************************************************************************)
nilIP == <<>>

RECURSIVE parseIPv4Loop(_, _, _, _, _)
parseIPv4Loop(s, i, fields, val, digLen) ==
    IF i > Len(s)
    THEN IF Len(fields) < 3 THEN nilIP ELSE Append(fields, val)
    ELSE IF IsDigit(s[i])
    THEN IF digLen = 1 /\ val = 0
         THEN nilIP
         ELSE LET v == val * 10 + DigitVal(s[i])
              IN  IF v > 255 THEN nilIP
                  ELSE parseIPv4Loop(s, i + 1, fields, v, digLen + 1)
    ELSE IF s[i] = "."
    THEN IF i = 1 \/ i = Len(s) \/ s[i - 1] = "."
         THEN nilIP
         ELSE IF Len(fields) = 3 THEN nilIP
         ELSE parseIPv4Loop(s, i + 1, Append(fields, val), 0, 0)
    ELSE nilIP

ParseIP_NoRangeCheck(s) ==
    LET RECURSIVE loop(_, _, _, _)
        loop(i, fields, val, digLen) ==
            IF i > Len(s)
            THEN IF Len(fields) < 3 THEN nilIP ELSE Append(fields, val % 256)
            ELSE IF IsDigit(s[i])
            THEN IF digLen = 1 /\ val = 0 THEN nilIP
                 ELSE loop(i + 1, fields, val * 10 + DigitVal(s[i]), digLen + 1)
            ELSE IF s[i] = "."
            THEN IF i = 1 \/ i = Len(s) \/ s[i - 1] = "." THEN nilIP
                 ELSE IF Len(fields) = 3 THEN nilIP
                 ELSE loop(i + 1, Append(fields, val % 256), 0, 0)
            ELSE nilIP
    IN  IF IndexByteString(s, ".") = 0 THEN nilIP ELSE loop(1, <<>>, 0, 0)

HexLetters == <<"a", "b", "c", "d", "e", "f">>
HexCapitals == <<"A", "B", "C", "D", "E", "F">>

IsHex(c) == IsDigit(c) \/ \E d \in 1..6 : HexLetters[d] = c \/ HexCapitals[d] = c

HexVal(c) ==
    IF IsDigit(c) THEN DigitVal(c)
    ELSE 9 + (CHOOSE d \in 1..6 : HexLetters[d] = c \/ HexCapitals[d] = c)

IPv6len == 16

Zeros(n) == [i \in 1..n |-> 0]

\* the run of hexadecimal digits at the head of s: the number of digits
\* read, their value, and whether it had at most four digits and 16 bits
RECURSIVE hexRun(_, _, _)
hexRun(s, off, acc) ==
    IF off >= Len(s) \/ ~IsHex(s[off + 1])
    THEN [off |-> off, acc |-> acc, ok |-> TRUE]
    ELSE LET a == acc * 16 + HexVal(s[off + 1])
         IN  IF off > 3 \/ a >= Pow2(16) THEN [off |-> off, acc |-> a, ok |-> FALSE]
             ELSE hexRun(s, off + 1, a)

noIPv6 == [ok |-> FALSE, ip |-> <<>>, ellipsis |-> 0 - 1, rest |-> <<>>]

\* the trailing IPv4 part of an IPv6 text, read after the bytes in read
embeddedIPv4(read, ellipsis, v4) ==
    IF v4 = nilIP THEN noIPv6
    ELSE [ok |-> TRUE, ip |-> read \o v4, ellipsis |-> ellipsis, rest |-> <<>>]

\* the loop over the groups: read holds the bytes read, ellipsis the number
\* of bytes before the "::" (-1 while there is none), rest the text left
\* over; groupRead takes the loop on from the group h at the head of s,
\* groupSaved from the text s2 that follows the group
RECURSIVE parseIPv6Loop(_, _, _)
RECURSIVE groupRead(_, _, _, _)
RECURSIVE groupSaved(_, _, _)

parseIPv6Loop(s, read, ellipsis) ==
    IF Len(read) >= IPv6len
    THEN [ok |-> TRUE, ip |-> read, ellipsis |-> ellipsis, rest |-> s]
    ELSE groupRead(s, read, ellipsis, hexRun(s, 0, 0))

groupRead(s, read, ellipsis, h) ==
    IF ~h.ok \/ h.off = 0 THEN noIPv6
    ELSE IF h.off < Len(s) /\ s[h.off + 1] = "."
    THEN IF (ellipsis < 0 /\ Len(read) # IPv6len - 4) \/ Len(read) + 4 > IPv6len
         THEN noIPv6
         ELSE embeddedIPv4(read, ellipsis, parseIPv4Loop(s, 1, <<>>, 0, 0))
    ELSE groupSaved(SubSeq(s, h.off + 1, Len(s)),
                    read \o <<h.acc \div 256, h.acc % 256>>, ellipsis)

groupSaved(s2, read, ellipsis) ==
    IF s2 = <<>>
    THEN [ok |-> TRUE, ip |-> read, ellipsis |-> ellipsis, rest |-> <<>>]
    ELSE IF s2[1] # ":" \/ Len(s2) = 1 THEN noIPv6
    ELSE IF s2[2] = ":"
    THEN IF ellipsis >= 0 THEN noIPv6
         ELSE IF Len(s2) = 2
         THEN [ok |-> TRUE, ip |-> read, ellipsis |-> Len(read), rest |-> <<>>]
         ELSE parseIPv6Loop(SubSeq(s2, 3, Len(s2)), read, Len(read))
    ELSE parseIPv6Loop(Tail(s2), read, ellipsis)

\* the end of parseIPv6: the whole text was used, and the "::" stands for
\* the bytes that are missing
expandEllipsis(r) ==
    IF ~r.ok \/ r.rest # <<>> THEN nilIP
    ELSE IF Len(r.ip) < IPv6len
    THEN IF r.ellipsis < 0 THEN nilIP
         ELSE SubSeq(r.ip, 1, r.ellipsis)
                  \o Zeros(IPv6len - Len(r.ip))
                  \o SubSeq(r.ip, r.ellipsis + 1, Len(r.ip))
    ELSE IF r.ellipsis >= 0 THEN nilIP
    ELSE r.ip

parseIPv6(in) ==
    IF IndexByteString(in, "%") # 0 THEN nilIP
    ELSE IF Len(in) >= 2 /\ in[1] = ":" /\ in[2] = ":"
    THEN IF Len(in) = 2 THEN Zeros(IPv6len)
         ELSE expandEllipsis(parseIPv6Loop(SubSeq(in, 3, Len(in)), <<>>, 0))
    ELSE expandEllipsis(parseIPv6Loop(in, <<>>, 0 - 1))

\* index of the first '.' or ':' of s, 0 when there is none
RECURSIVE FirstSeparator(_, _)
FirstSeparator(s, i) ==
    IF i > Len(s) THEN 0
    ELSE IF s[i] = "." \/ s[i] = ":" THEN i
    ELSE FirstSeparator(s, i + 1)

parseAddrAt(s, i) ==
    IF i = 0 THEN nilIP
    ELSE IF s[i] = "." THEN parseIPv4Loop(s, 1, <<>>, 0, 0)
    ELSE parseIPv6(s)

ParseIP(s) == parseAddrAt(s, FirstSeparator(s, 1))

\* the sixteen-byte form of an IPv4 address starts with these twelve bytes
v4InV6Prefix == Zeros(10) \o <<255, 255>>

\* IP.To4: the four-byte form, nil for an address that is not IPv4
To4(addr) ==
    IF Len(addr) = 4 THEN addr
    ELSE IF Len(addr) = IPv6len /\ SubSeq(addr, 1, 12) = v4InV6Prefix
    THEN SubSeq(addr, 13, 16)
    ELSE nilIP

(***************************************************************************)
(* Masks and networks (net.CIDRMask, IP.Mask, IPMask.Size, IPNet.Contains, *)
(* IP.Equal), computed byte by byte as in package net.                     *)
(***************************************************************************)
RECURSIVE BitAnd(_, _, _)
BitAnd(x, y, bits) ==
    IF bits = 0 THEN 0
    ELSE 2 * BitAnd(x \div 2, y \div 2, bits - 1) + ((x % 2) * (y % 2))

\* a mask byte with k leading ones: ^byte(0xff >> k)
MaskByte(k) == 256 - Pow2(8 - k)

Min(a, b) == IF a < b THEN a ELSE b
Max(a, b) == IF a > b THEN a ELSE b

CIDRMask(ones, bits) ==
    [i \in 1..(bits \div 8) |-> MaskByte(Max(0, Min(8, ones - 8 * (i - 1))))]

\* IP.Mask: a sixteen-byte mask of twelve ff bytes is cut to four bytes for
\* an IPv4 address, an IPv4 address is cut to four bytes for a four-byte mask
maskBytes(a, m) ==
    IF Len(a) # Len(m) THEN nilIP
    ELSE [i \in 1..Len(a) |-> BitAnd(a[i], m[i], 8)]

Mask(addr, mask) ==
    IF Len(addr) = 4
    THEN IF Len(mask) = 4 THEN maskBytes(addr, mask)
         ELSE IF Len(mask) = IPv6len /\ SubSeq(mask, 1, 12) = [i \in 1..12 |-> 255]
         THEN maskBytes(addr, SubSeq(mask, 13, 16))
         ELSE maskBytes(addr, mask)
    ELSE IF Len(mask) = 4 /\ SubSeq(addr, 1, 12) = v4InV6Prefix
    THEN maskBytes(SubSeq(addr, 13, 16), mask)
    ELSE maskBytes(addr, mask)

\* number of leading one bits of a byte
RECURSIVE LeadingOnes(_, _)
LeadingOnes(b, bits) ==
    IF bits = 0 \/ b < Pow2(bits - 1) THEN 0
    ELSE 1 + LeadingOnes(b - Pow2(bits - 1), bits - 1)

RECURSIVE MaskSizeFrom(_, _)
MaskSizeFrom(mask, i) ==
    IF i > Len(mask) THEN 0
    ELSE IF mask[i] = 255 THEN 8 + MaskSizeFrom(mask, i + 1)
    ELSE LeadingOnes(mask[i], 8)

MaskSize(mask) == MaskSizeFrom(mask, 1)

\* networkNumberAndMask: the network number in its shortest form and the
\* mask cut to its length; no network number when the two do not fit
noNetwork == [ip |-> nilIP, m |-> <<>>]

numberAndMask(nn, ipLen, m) ==
    IF nn = nilIP /\ ipLen # IPv6len THEN noNetwork
    ELSE IF Len(m) = 4
    THEN IF Len(nn) = 4 THEN [ip |-> nn, m |-> m] ELSE noNetwork
    ELSE IF Len(m) = IPv6len
    THEN IF Len(nn) = 4 THEN [ip |-> nn, m |-> SubSeq(m, 13, 16)]
         ELSE noNetwork
    ELSE noNetwork

networkNumberAndMask(ipNet) ==
    IF Len(ipNet.IP) = IPv6len /\ SubSeq(ipNet.IP, 1, 12) # v4InV6Prefix
    THEN IF Len(ipNet.Mask) = IPv6len THEN [ip |-> ipNet.IP, m |-> ipNet.Mask]
         ELSE noNetwork
    ELSE numberAndMask(To4(ipNet.IP), Len(ipNet.IP), ipNet.Mask)

sameUnderMask(n, x) ==
    /\ Len(x) = Len(n.ip)
    /\ \A i \in 1..Len(x) : BitAnd(n.ip[i], n.m[i], 8) = BitAnd(x[i], n.m[i], 8)

Contains(ipNet, addr) ==
    sameUnderMask(networkNumberAndMask(ipNet),
                  IF Len(addr) = IPv6len /\ SubSeq(addr, 1, 12) = v4InV6Prefix
                  THEN SubSeq(addr, 13, 16) ELSE addr)

\* IP.Equal: an IPv4 address equals its sixteen-byte form
equalForms(a, b, a4, b4) ==
    IF a4 # nilIP /\ b4 # nilIP THEN a4 = b4
    ELSE Len(a) = Len(b) /\ a = b

Equal(a, b) == equalForms(a, b, To4(a), To4(b))

(***************************************************************************)
(* net.ParseCIDR: the text before the first '/' is an address, the text    *)
(* after it a decimal number (dtoi, leading zeros allowed) of at most the  *)
(* bit length of the address, 32 for IPv4 text and 128 for IPv6 text.      *)
(* Returns the address as written, the masked network, and the error.      *)
(***************************************************************************)
dtoiBig == Pow2(24) - 1

RECURSIVE dtoiLoop(_, _, _)
dtoiLoop(s, i, n) ==
    IF i > Len(s) \/ ~IsDigit(s[i])
    THEN [n |-> n, i |-> i - 1, ok |-> i > 1]
    ELSE LET m == n * 10 + DigitVal(s[i])
         IN  IF m >= dtoiBig THEN [n |-> dtoiBig, i |-> i - 1, ok |-> FALSE]
             ELSE dtoiLoop(s, i + 1, m)

dtoi(s) == dtoiLoop(s, 1, 0)

\* netip.Addr.BitLen
BitLen(addr) == IF Len(addr) = 4 THEN 32 ELSE 128

noCIDR == [err |-> TRUE, IP |-> nilIP, Net |-> [IP |-> nilIP, Mask |-> <<>>]]

networkOf(addr, m) == [err |-> FALSE, IP |-> addr, Net |-> [IP |-> Mask(addr, m), Mask |-> m]]

parseCIDRParts(addr, mask, d) ==
    IF addr = nilIP THEN noCIDR
    ELSE IF ~d.ok \/ d.i # Len(mask) \/ d.n < 0 \/ d.n > BitLen(addr) THEN noCIDR
    ELSE networkOf(addr, CIDRMask(d.n, BitLen(addr)))

parseCIDRAt(s, i) ==
    IF i = 0 THEN noCIDR
    ELSE parseCIDRParts(ParseIP(SubSeq(s, 1, i - 1)), SubSeq(s, i + 1, Len(s)),
                        dtoi(SubSeq(s, i + 1, Len(s))))

ParseCIDR(s) == parseCIDRAt(s, IndexByteString(s, "/"))

(***************************************************************************)
(* uint32 arithmetic on <<high, low>> pairs, modulo 2^32.                  *)
(***************************************************************************)
Half == Pow2(16)

U32Add(a, b) ==
    LET lo == a[2] + b[2]
    IN  <<(a[1] + b[1] + (lo \div Half)) % Half, lo % Half>>

U32Sub(a, b) ==
    LET lo == a[2] - b[2]
        borrow == IF lo < 0 THEN 1 ELSE 0
    IN  <<(a[1] - b[1] - borrow + Half) % Half, (lo + Half) % Half>>

U32Le(a, b) == a[1] < b[1] \/ (a[1] = b[1] /\ a[2] <= b[2])

\* uint32(1) << n for a shift count n >= 0; a negative count panics in Go
\* (isIPInCIDRPanics), and the value given for it here is never used
Shl1(n) ==
    IF n >= 32 \/ n < 0 THEN <<0, 0>>
    ELSE IF n >= 16 THEN <<Pow2(n - 16), 0>>
    ELSE <<0, Pow2(n)>>

uint32Of(x) ==
    IF x = nilIP THEN <<0, 0>>
    ELSE <<x[1] * 256 + x[2], x[3] * 256 + x[4]>>

ipv4ToUint32(addr) == uint32Of(To4(addr))

(***************************************************************************)
(* isIPInCIDR (src/main.go:281-362).  strictMode is the variadic tail.     *)
(***************************************************************************)
strict(mode) == IF Len(mode) > 0 THEN mode[1] ELSE FALSE

\* faulty variant of case 1: drops the fall-back
\* to a plain IP reference
HostCandidate_NoIPFallback(ipObj, ref) ==
    LET c == ParseCIDR(ref)
    IN  IF c.err THEN FALSE ELSE Contains(c.Net, ipObj)

\* faulty variant of case 1: matches the network address only
HostCandidate_NetAddrOnly(ipObj, ref) ==
    LET c == ParseCIDR(ref)
    IN  IF c.err
        THEN LET cidrIP == ParseIP(ref)
             IN  IF cidrIP = nilIP THEN FALSE ELSE Equal(ipObj, cidrIP)
        ELSE Equal(c.Net.IP, ipObj)

\* Case 1 (lines 289-304): the candidate is a single IP
HostCandidate(ipObj, ref) ==
    LET c == ParseCIDR(ref)
    IN  IF c.err
        THEN LET cidrIP == ParseIP(ref)
             IN  IF cidrIP = nilIP THEN FALSE ELSE Equal(ipObj, cidrIP)
        ELSE Contains(c.Net, ipObj)

\* faulty variant: gives up when the reference is not in CIDR notation
NetCandidateIPRef_GiveUp(ipNet, ref) == FALSE

\* lines 315-322: the candidate is a CIDR, the reference is not
NetCandidateIPRef(ipNet, ref) ==
    LET cidrIP == ParseIP(ref)
    IN  IF cidrIP = nilIP THEN FALSE ELSE Contains(ipNet, cidrIP)

\* faulty variant: the end is one past the last address of the block
RangeEndOf_OnePast(start, maskSize) == U32Add(start, Shl1(32 - maskSize))

\* lines 352-357: the range bounds of the partial-overlap check; the base
\* is the address as written (the first result of net.ParseCIDR)
RangeEndOf(start, maskSize) == U32Sub(U32Add(start, Shl1(32 - maskSize)), <<0, 1>>)

\* faulty variant: the overlap policy looks for the candidate's base in the
\* reference only
NetCandidateNetRef_OneWay(a, b, c, d, isStrict) ==
    IF a = b THEN TRUE
    ELSE IF isStrict
         THEN Contains(d.Net, c.IP) /\ MaskSize(d.Net.Mask) <= MaskSize(c.Net.Mask)
         ELSE Contains(d.Net, c.IP)

\* faulty variant: the strict policy compares the prefix lengths only
NetCandidateNetRef_StrictBySize(a, b, c, d, isStrict) ==
    IF a = b THEN TRUE
    ELSE IF isStrict
         THEN MaskSize(d.Net.Mask) <= MaskSize(c.Net.Mask)
         ELSE \/ Contains(d.Net, c.IP)
              \/ Contains(c.Net, d.IP)
              \/ /\ U32Le(ipv4ToUint32(c.IP),
                          RangeEndOf(ipv4ToUint32(d.IP), MaskSize(d.Net.Mask)))
                 /\ U32Le(ipv4ToUint32(d.IP),
                          RangeEndOf(ipv4ToUint32(c.IP), MaskSize(c.Net.Mask)))

\* lines 324-361: both operands are CIDRs
NetCandidateNetRef(a, b, c, d, isStrict) ==
    IF a = b THEN TRUE
    ELSE LET ipNetStart   == c.IP
             cidrNetStart == d.IP
             ipMaskSize   == MaskSize(c.Net.Mask)
             cidrMaskSize == MaskSize(d.Net.Mask)
         IN  IF isStrict
             THEN Contains(d.Net, ipNetStart) /\ cidrMaskSize <= ipMaskSize
             ELSE IF Contains(d.Net, ipNetStart) \/ Contains(c.Net, cidrNetStart)
             THEN TRUE
             ELSE LET ipStart   == ipv4ToUint32(ipNetStart)
                      cidrStart == ipv4ToUint32(cidrNetStart)
                      ipEnd     == RangeEndOf(ipStart, ipMaskSize)
                      cidrEnd   == RangeEndOf(cidrStart, cidrMaskSize)
                  IN  U32Le(ipStart, cidrEnd) /\ U32Le(cidrStart, ipEnd)

\* faulty variant: tests textual equality before anything is parsed
isIPInCIDR_EqualFirst(a, b, mode) ==
    IF a = b THEN TRUE
    ELSE LET ipObj == ParseIP(a)
         IN  IF ipObj # nilIP THEN HostCandidate(ipObj, b)
             ELSE LET c == ParseCIDR(a)
                  IN  IF c.err THEN FALSE
                      ELSE LET d == ParseCIDR(b)
                           IN  IF d.err THEN NetCandidateIPRef(c.Net, b)
                               ELSE NetCandidateNetRef(a, b, c, d, strict(mode))

isIPInCIDR(a, b, mode) ==
    LET ipObj == ParseIP(a)
    IN  IF ipObj # nilIP THEN HostCandidate(ipObj, b)
        ELSE LET c == ParseCIDR(a)
             IN  IF c.err THEN FALSE
                 ELSE LET d == ParseCIDR(b)
                      IN  IF d.err THEN NetCandidateIPRef(c.Net, b)
                          ELSE NetCandidateNetRef(a, b, c, d, strict(mode))

\* the run-time panic of lines 356-357: a negative shift count
isIPInCIDRPanics(a, b, mode) ==
    LET c == ParseCIDR(a)
        d == ParseCIDR(b)
    IN  /\ ParseIP(a) = nilIP
        /\ ~c.err
        /\ ~d.err
        /\ a # b
        /\ ~strict(mode)
        /\ ~Contains(d.Net, c.IP)
        /\ ~Contains(c.Net, d.IP)
        /\ (32 - MaskSize(c.Net.Mask) < 0 \/ 32 - MaskSize(d.Net.Mask) < 0)

(***************************************************************************)
(* Writing an address or a network as text (IP.String, IPNet.String; the   *)
(* texts of the configuration and of the test tables are written so).      *)
(***************************************************************************)
RECURSIVE Itoa(_)
Itoa(n) == IF n < 10 THEN <<Digits[n + 1]>> ELSE Itoa(n \div 10) \o <<Digits[(n % 10) + 1]>>

NoPrefix == 0 - 1

FormatIP(a) ==
    Itoa(a[1]) \o <<".">> \o Itoa(a[2]) \o <<".">> \o Itoa(a[3]) \o <<".">> \o Itoa(a[4])

Format(e) ==
    IF e.prefix = NoPrefix THEN FormatIP(e.addr)
    ELSE FormatIP(e.addr) \o <<"/">> \o [i \in 1..e.pad |-> "0"] \o Itoa(e.prefix)

(***************************************************************************)
(* parseIPAddresses (src/main.go:237-265).  The text is split at the       *)
(* newlines; a trimmed line that is empty or starts with '#' is skipped;   *)
(* a line the regular expression matches from end to end is taken whole,   *)
(* any other line gives the matches found in it from left to right.        *)
(***************************************************************************)
\* strings.Split(s, sep) for a one-character separator
RECURSIVE Split(_, _)
Split(s, sep) ==
    LET i == IndexByteString(s, sep)
    IN  IF i = 0 THEN <<s>>
        ELSE <<SubSeq(s, 1, i - 1)>> \o Split(SubSeq(s, i + 1, Len(s)), sep)

\* unicode.IsSpace on the characters of the alphabet
IsSpace(c) == c \in {" ", "\t", "\n", "\r"}

RECURSIVE TrimLeft(_)
TrimLeft(s) ==
    IF s # <<>> /\ IsSpace(s[1]) THEN TrimLeft(Tail(s)) ELSE s

RECURSIVE TrimRight(_)
TrimRight(s) ==
    IF s # <<>> /\ IsSpace(s[Len(s)]) THEN TrimRight(SubSeq(s, 1, Len(s) - 1)) ELSE s

TrimSpace(s) == TrimRight(TrimLeft(s))

HasPrefix(s, prefix) ==
    Len(s) >= Len(prefix) /\ SubSeq(s, 1, Len(prefix)) = prefix

\* the number of digits of s from index i on, counted up to most
RECURSIVE DigitRun(_, _, _)
DigitRun(s, i, most) ==
    IF most = 0 \/ i > Len(s) THEN 0
    ELSE IF IsDigit(s[i]) THEN 1 + DigitRun(s, i + 1, most - 1)
    ELSE 0

\* \d{1,3}\. at index i: the index after the dot, 0 when there is no match
DottedGroup(s, i) ==
    LET n == DigitRun(s, i, 3)
    IN  IF n >= 1 /\ i + n <= Len(s) /\ s[i + n] = "." THEN i + n + 1 ELSE 0

\* faulty variant: the expression without its optional /prefix part
MatchAt_NoPrefix(s, i) ==
    LET a == DottedGroup(s, i)
        b == IF a = 0 THEN 0 ELSE DottedGroup(s, a)
        c == IF b = 0 THEN 0 ELSE DottedGroup(s, b)
        n == IF c = 0 THEN 0 ELSE DigitRun(s, c, 3)
    IN  IF n = 0 THEN 0 ELSE c + n - 1

\* (?:\d{1,3}\.){3}\d{1,3}(?:/\d{1,2})? matched at index i: the index of
\* the last character of the match, 0 when there is no match at i
MatchAt(s, i) ==
    LET a == DottedGroup(s, i)
        b == IF a = 0 THEN 0 ELSE DottedGroup(s, a)
        c == IF b = 0 THEN 0 ELSE DottedGroup(s, b)
        n == IF c = 0 THEN 0 ELSE DigitRun(s, c, 3)
    IN  IF n = 0 THEN 0
        ELSE LET e == c + n - 1
                 p == IF e + 1 <= Len(s) /\ s[e + 1] = "/"
                      THEN DigitRun(s, e + 2, 2)
                      ELSE 0
             IN  IF p = 0 THEN e ELSE e + 1 + p

\* ipRegex.FindAllString(s, -1): the matches from left to right, each
\* search starting after the previous match
RECURSIVE FindAllFrom(_, _)
FindAllFrom(s, i) ==
    IF i > Len(s) THEN <<>>
    ELSE LET e == MatchAt(s, i)
         IN  IF e = 0 THEN FindAllFrom(s, i + 1)
             ELSE <<SubSeq(s, i, e)>> \o FindAllFrom(s, e + 1)

FindAllString(s) == FindAllFrom(s, 1)

\* ipRegex.FindString(s): the leftmost match, the empty string when none
FindString(s) ==
    LET all == FindAllString(s)
    IN  IF all = <<>> THEN <<>> ELSE all[1]

\* faulty variant: a line holding a match is taken whole
parseLine_WholeLine(found, rawLine) ==
    LET line == TrimSpace(rawLine)
    IN  IF HasPrefix(line, <<"#">>) \/ line = <<>> THEN found
        ELSE IF FindString(line) # <<>> THEN found \cup {line}
        ELSE found

\* the body of the loop over the lines (lines 244-262)
parseLine(found, rawLine) ==
    LET line == TrimSpace(rawLine)
    IN  IF HasPrefix(line, <<"#">>) \/ line = <<>> THEN found
        ELSE IF FindString(line) = line THEN found \cup {line}
        ELSE found \cup { FindAllString(line)[k] : k \in 1..Len(FindAllString(line)) }

RECURSIVE parseLines(_, _)
parseLines(found, lines) ==
    IF lines = <<>> THEN found
    ELSE parseLines(parseLine(found, Head(lines)), Tail(lines))

parseIPAddresses(text) == parseLines({}, Split(text, "\n"))

(***************************************************************************)
(* isIPWhitelisted and writeBlocklistFile (src/main.go:365-416).  A file   *)
(* is a sequence of lines, a line a sequence of text fragments.            *)
(***************************************************************************)
\* faulty variant: calls the comparison in strict mode
isIPWhitelisted_Strict(a, wl) ==
    \/ a \in wl
    \/ \E c \in wl : isIPInCIDR(a, c, <<TRUE>>)

isIPWhitelisted(a, wl) ==
    \/ a \in wl
    \/ \E c \in wl : isIPInCIDR(a, c, <<FALSE>>)

\* the addresses the loop of writeBlocklistFile writes for the maps wl and bl
Emitted(wl, bl) == { address \in bl : ~isIPWhitelisted(address, wl) }

\* faulty variant: the header without its default line
HeaderLines_NoDefault ==
    << <<"# blocklist.conf">>, <<>>, <<"geo $blocked_ip {">>, <<>> >>

HeaderLines ==
    << <<"# blocklist.conf">>, <<>>, <<"geo $blocked_ip {">>,
       <<"    default        0;">>, <<>> >>

FooterLines == << <<>>, <<"}">> >>

\* faulty variant: writes the parsed network (ipNet.String()) in place of the text
EntryLine_Canonical(address) ==
    LET c == ParseCIDR(address)
    IN  IF c.err THEN <<"    ">> \o address \o <<"    1;">>
        ELSE <<"    ">> \o FormatIP(c.Net.IP) \o <<"/">> \o Itoa(MaskSize(c.Net.Mask))
                        \o <<"    1;">>

Slash32 == <<"/", "3", "2">>

\* faulty variant: writes every entry with /32 after it
EntryLine_Slash32(address) == <<"    ">> \o address \o Slash32 \o <<"    1;">>

\* fmt.Sprintf("    %s    1;\n", address)
EntryLine(address) == <<"    ">> \o address \o <<"    1;">>

IsEntryLine(line) ==
    /\ Len(line) >= 2
    /\ line[1] = "    "
    /\ line[Len(line)] = "    1;"

\* the entries a file holds, read back from its lines
Entries(f) ==
    { SubSeq(f[i], 2, Len(f[i]) - 1) : i \in { j \in 1..Len(f) : IsEntryLine(f[j]) } }

(***************************************************************************)
(* The input universe.  A well-formed entry is written from its address,   *)
(* its prefix length (NoPrefix for a host) and the number of zeros padding *)
(* the prefix; malformed texts are listed.                                 *)
(***************************************************************************)
Host(a) == [addr |-> a, prefix |-> NoPrefix, pad |-> 0]
Net(a, p) == [addr |-> a, prefix |-> p, pad |-> 0]

LastOctets == {0, 5, 127, 128, 200, 255}
Prefixes == {0, 8, 23, 24, 25, 32}

GenAddrs == { <<10, 0, c, d>> : c \in 0..MaxThird, d \in LastOctets }

\* the entries of the tables of TestCIDRHandling, TestIsIPWhitelisted and
\* TestBlocklistGeneration, and the ends of the address space
FixtureEntries ==
    { Host(<<192, 168, 1, 1>>), Host(<<8, 8, 8, 8>>),
      Host(<<216, 144, 248, 28>>), Host(<<216, 144, 248, 31>>),
      Host(<<216, 144, 248, 32>>), Host(<<216, 144, 248, 16>>),
      Net(<<216, 144, 248, 16>>, 28), Net(<<216, 144, 248, 32>>, 28),
      Net(<<216, 144, 248, 16>>, 30), Net(<<216, 144, 248, 0>>, 24),
      Net(<<0, 0, 0, 0>>, 0), Host(<<255, 255, 255, 255>>),
      Net(<<255, 255, 255, 200>>, 24),
      [addr |-> <<10, 0, 0, 0>>, prefix |-> 8, pad |-> 1] }

CmpEntries ==
    { Host(a) : a \in GenAddrs } \cup { Net(a, p) : a \in GenAddrs, p \in Prefixes }
        \cup FixtureEntries

\* the entries the whitelists and blocklists of the filter are drawn from
FilterEntries ==
    { Host(<<10, 0, 0, 5>>), Host(<<10, 0, 1, 5>>),
      Net(<<10, 0, 0, 0>>, 24), Net(<<10, 0, 0, 200>>, 24),
      Net(<<10, 0, 0, 128>>, 25), Net(<<10, 0, 1, 0>>, 25) }

\* TestBlocklistGeneration (src/unnamed/part_000:185-247)
GenerationWhitelist ==
    { Host(<<104, 131, 107, 63>>), Host(<<122, 248, 234, 23>>),
      Net(<<216, 144, 248, 16>>, 28), Net(<<216, 245, 221, 80>>, 28) }

GenerationBlocklist ==
    { Host(<<45, 135, 193, 100>>), Host(<<216, 144, 248, 20>>),
      Host(<<216, 245, 221, 85>>), Host(<<122, 248, 234, 23>>),
      Host(<<192, 168, 1, 1>>) }

ValidEntries ==
    CmpEntries \cup FilterEntries \cup GenerationWhitelist \cup GenerationBlocklist

invalidIP == <<"i", "n", "v", "a", "l", "i", "d", "-", "i", "p">>
invalidCIDR == <<"i", "n", "v", "a", "l", "i", "d", "-", "c", "i", "d", "r">>

MalformedTexts ==
    { invalidIP, invalidCIDR,
      FormatIP(<<999, 999, 999, 999>>),                  \* 999.999.999.999
      FormatIP(<<10, 0, 0, 256>>),                       \* 10.0.0.256
      Itoa(192) \o <<".">> \o Itoa(168) \o <<".">> \o Itoa(1),   \* 192.168.1
      FormatIP(<<1, 2, 3, 4>>) \o <<".">> \o Itoa(5),    \* 1.2.3.4.5
      <<"0">> \o FormatIP(<<10, 0, 0, 5>>),              \* 010.0.0.5
      Format(Net(<<10, 0, 0, 0>>, 33)),                  \* 10.0.0.0/33
      FormatIP(<<10, 0, 0, 5>>) \o <<"/">>,              \* 10.0.0.5/
      Format(Net(<<10, 0, 0, 0>>, 24)) \o <<"/", "1">>,  \* 10.0.0.0/24/1
      Format(Net(<<10, 0, 0, 256>>, 24)) }               \* 10.0.0.256/24

ValidTexts == { Format(e) : e \in ValidEntries }

CmpTexts == { Format(e) : e \in CmpEntries } \cup MalformedTexts

FilterTexts ==
    { Format(e) : e \in FilterEntries }
        \cup { invalidIP, FormatIP(<<10, 0, 0, 256>>) }

Texts(es) == { Format(e) : e \in es }

BoundedSubsets(S, n) == { T \in SUBSET S : Cardinality(T) <= n }

StrictArgs == { <<>>, <<TRUE>>, <<FALSE>> }

\* the entry a well-formed text was written from
EntryOf == [t \in ValidTexts |-> CHOOSE e \in ValidEntries : Format(e) = t]

(***************************************************************************)
(* SpecCompare: one call of isIPInCIDR on arguments drawn from CmpTexts.   *)
(***************************************************************************)
FilterIdle ==
    /\ whitelist = {}
    /\ blocklist = {}
    /\ pending = {}
    /\ buf = <<>>
    /\ file = <<>>
    /\ err = FALSE
    /\ calls = 0

CompareIdle ==
    /\ ip = <<>>
    /\ cidr = <<>>
    /\ strictMode = <<>>
    /\ covered = FALSE
    /\ panicked = FALSE

ParseIdle ==
    /\ contents = <<>>
    /\ addresses = {}

\* the zero value of Config
NoConfig ==
    [LocalWhitelist |-> <<>>, LocalBlocklist |-> <<>>,
     RemoteWhitelists |-> <<>>, RemoteBlocklists |-> <<>>,
     NginxContainerNames |-> <<>>]

MainIdle ==
    /\ config = NoConfig
    /\ fetched = <<>>
    /\ prev = <<>>

DockerIdle ==
    /\ containers = <<>>
    /\ stopCalls = <<>>
    /\ startCalls = <<>>
    /\ nameIdx = 0
    /\ restartErr = ""

ConcIdle == procs = <<>>

InitCompare ==
    /\ pc = "cmp"
    /\ ip \in CmpTexts
    /\ cidr \in CmpTexts
    /\ strictMode \in StrictArgs
    /\ covered = FALSE
    /\ panicked = FALSE
    /\ FilterIdle
    /\ ParseIdle
    /\ MainIdle
    /\ DockerIdle
    /\ ConcIdle

CallIsIPInCIDR ==
    /\ pc = "cmp"
    /\ IF isIPInCIDRPanics(ip, cidr, strictMode)
       THEN /\ pc' = "cmp_panicked"
            /\ panicked' = TRUE
            /\ covered' = covered
       ELSE /\ pc' = "cmp_returned"
            /\ panicked' = FALSE
            /\ covered' = isIPInCIDR(ip, cidr, strictMode)
    /\ UNCHANGED <<ip, cidr, strictMode>>
    /\ UNCHANGED <<filterVars, parseVars, mainVars>>
    /\ UNCHANGED <<dockerVars, concVars>>

NextCompare == CallIsIPInCIDR

SpecCompare == InitCompare /\ [][NextCompare]_vars

\* the file an earlier run left at the path
StaleFile ==
    HeaderLines \o << EntryLine(FormatIP(<<8, 8, 8, 8>>)) >> \o FooterLines

(***************************************************************************)
(* SpecFilter: one call of writeBlocklistFile.  The range over the         *)
(* blocklist map visits the keys in any order.  The bufio.Writer holds     *)
(* the lines (far fewer than its 4096 bytes) until Flush.                  *)
(***************************************************************************)
InitFilter ==
    /\ pc = "create"
    /\ \/ /\ whitelist \in BoundedSubsets(FilterTexts, MaxWhitelist)
          /\ blocklist \in BoundedSubsets(FilterTexts, MaxBlocklist)
       \/ /\ whitelist = Texts(GenerationWhitelist)
          /\ blocklist = Texts(GenerationBlocklist)
    /\ pending = {}
    /\ buf = <<>>
    /\ file \in { <<>>, StaleFile }
    /\ err = FALSE
    /\ calls = 1
    /\ CompareIdle
    /\ ParseIdle
    /\ MainIdle
    /\ DockerIdle
    /\ ConcIdle

\* faulty variant: opens the file without truncating it
CreateFile_NoTruncate ==
    /\ pc = "create"
    /\ \/ /\ pc' = "returned"
          /\ err' = TRUE
          /\ UNCHANGED file
       \/ /\ pc' = "header"
          /\ UNCHANGED <<file, err>>
    /\ UNCHANGED <<whitelist, blocklist, pending, buf, calls>>
    /\ UNCHANGED <<cmpVars, parseVars, mainVars>>
    /\ UNCHANGED <<dockerVars, concVars>>

\* os.Create: fails, or truncates the file
CreateFile ==
    /\ pc = "create"
    /\ \/ /\ pc' = "returned"
          /\ err' = TRUE
          /\ UNCHANGED file
       \/ /\ pc' = "header"
          /\ file' = <<>>
          /\ UNCHANGED err
    /\ UNCHANGED <<whitelist, blocklist, pending, buf, calls>>
    /\ UNCHANGED <<cmpVars, parseVars, mainVars>>
    /\ UNCHANGED <<dockerVars, concVars>>

WriteHeader ==
    /\ pc = "header"
    /\ buf' = buf \o HeaderLines
    /\ pending' = blocklist
    /\ pc' = "range"
    /\ UNCHANGED <<whitelist, blocklist, file, err, calls>>
    /\ UNCHANGED <<cmpVars, parseVars, mainVars>>
    /\ UNCHANGED <<dockerVars, concVars>>

\* faulty variant: also skips an entry that another blocklist entry covers
WriteEntry_SkipCoveredByBlocklist ==
    /\ pc = "range"
    /\ \E address \in pending :
          /\ pending' = pending \ {address}
          /\ IF address \notin whitelist
                /\ \E c \in whitelist : isIPInCIDRPanics(address, c, <<FALSE>>)
             THEN /\ pc' = "panicked"
                  /\ panicked' = TRUE
                  /\ buf' = buf
             ELSE /\ pc' = pc
                  /\ panicked' = panicked
                  /\ buf' = IF isIPWhitelisted(address,
                                               whitelist \cup (blocklist \ {address}))
                            THEN buf
                            ELSE Append(buf, EntryLine(address))
    /\ UNCHANGED <<whitelist, blocklist, file, err, calls>>
    /\ UNCHANGED <<ip, cidr, strictMode, covered>>
    /\ UNCHANGED <<parseVars, mainVars>>
    /\ UNCHANGED <<dockerVars, concVars>>

\* faulty variant: deletes a whitelisted key from the blocklist map in place
WriteEntry_DeleteWhitelisted ==
    /\ pc = "range"
    /\ \E address \in pending :
          /\ pending' = pending \ {address}
          /\ IF address \notin whitelist
                /\ \E c \in whitelist : isIPInCIDRPanics(address, c, <<FALSE>>)
             THEN /\ pc' = "panicked"
                  /\ panicked' = TRUE
                  /\ buf' = buf
                  /\ blocklist' = blocklist
             ELSE /\ pc' = pc
                  /\ panicked' = panicked
                  /\ IF isIPWhitelisted(address, whitelist)
                     THEN /\ buf' = buf
                          /\ blocklist' = blocklist \ {address}
                     ELSE /\ buf' = Append(buf, EntryLine(address))
                          /\ blocklist' = blocklist
    /\ UNCHANGED <<whitelist, file, err, calls>>
    /\ UNCHANGED <<ip, cidr, strictMode, covered>>
    /\ UNCHANGED <<parseVars, mainVars>>
    /\ UNCHANGED <<dockerVars, concVars>>

\* one iteration of the loop over the blocklist
WriteEntry ==
    /\ pc = "range"
    /\ \E address \in pending :
          /\ pending' = pending \ {address}
          /\ IF address \notin whitelist
                /\ \E c \in whitelist : isIPInCIDRPanics(address, c, <<FALSE>>)
             THEN /\ pc' = "panicked"
                  /\ panicked' = TRUE
                  /\ buf' = buf
             ELSE /\ pc' = pc
                  /\ panicked' = panicked
                  /\ buf' = IF isIPWhitelisted(address, whitelist)
                            THEN buf
                            ELSE Append(buf, EntryLine(address))
    /\ UNCHANGED <<whitelist, blocklist, file, err, calls>>
    /\ UNCHANGED <<ip, cidr, strictMode, covered>>
    /\ UNCHANGED <<parseVars, mainVars>>
    /\ UNCHANGED <<dockerVars, concVars>>

WriteFooter ==
    /\ pc = "range"
    /\ pending = {}
    /\ buf' = buf \o FooterLines
    /\ pc' = "flush"
    /\ UNCHANGED <<whitelist, blocklist, pending, file, err, calls>>
    /\ UNCHANGED <<cmpVars, parseVars, mainVars>>
    /\ UNCHANGED <<dockerVars, concVars>>

\* writer.Flush: writes the buffer after what the file holds since os.Create
\* (nothing), or fails after writing some of it
Flush ==
    /\ pc = "flush"
    /\ pc' = "returned"
    /\ \/ /\ file' = file \o buf
          /\ err' = FALSE
       \/ /\ \E n \in 0..(Len(buf) - 1) : file' = file \o SubSeq(buf, 1, n)
          /\ err' = TRUE
    /\ UNCHANGED <<whitelist, blocklist, pending, buf, calls>>
    /\ UNCHANGED <<cmpVars, parseVars, mainVars>>
    /\ UNCHANGED <<dockerVars, concVars>>

NextFilter ==
    \/ CreateFile
    \/ WriteHeader
    \/ WriteEntry
    \/ WriteFooter
    \/ Flush

SpecFilter == InitFilter /\ [][NextFilter]_vars

(***************************************************************************)
(* SpecSplit: one call of writeBlocklistFile on maps drawn from a few      *)
(* texts, so that the output can be compared with the output for every     *)
(* part of the blocklist and for every smaller or larger whitelist.        *)
(***************************************************************************)
SplitTexts ==
    { FormatIP(<<10, 0, 0, 5>>), Format(Net(<<10, 0, 0, 0>>, 24)),
      Format(Net(<<10, 0, 0, 128>>, 25)), Format(Net(<<10, 0, 1, 0>>, 25)),
      invalidIP }

InitSplit ==
    /\ pc = "create"
    /\ whitelist \in BoundedSubsets(SplitTexts, MaxWhitelist)
    /\ blocklist \in BoundedSubsets(SplitTexts, MaxBlocklist)
    /\ pending = {}
    /\ buf = <<>>
    /\ file \in { <<>>, StaleFile }
    /\ err = FALSE
    /\ calls = 1
    /\ CompareIdle
    /\ ParseIdle
    /\ MainIdle
    /\ DockerIdle
    /\ ConcIdle

SpecSplit == InitSplit /\ [][NextFilter]_vars

(***************************************************************************)
(* FairSpecMixed: one call of writeBlocklistFile on maps that hold         *)
(* well-formed IPv4 entries next to texts that are not IPv4 entries: words, *)
(* an octet out of range, and IPv6 text, which the configuration can hold  *)
(* since its entries are taken as they are (src/main.go:446, 464).  The    *)
(* call takes its steps until it returns or panics.                        *)
(***************************************************************************)
AnyV6    == <<":", ":", "/", "0">>
LowV6    == <<":", ":", "/", "6", "4">>
HostV6   == <<"2", "0", "0", "1", ":", "d", "b", "8", ":", ":", "1">>

MixedTexts ==
    { FormatIP(<<10, 0, 0, 5>>), Format(Net(<<10, 0, 0, 0>>, 24)),
      Format(Net(<<10, 0, 1, 0>>, 25)),
      invalidIP, FormatIP(<<10, 0, 0, 256>>),
      AnyV6, LowV6, HostV6 }

InitMixed ==
    /\ pc = "create"
    /\ whitelist \in BoundedSubsets(MixedTexts, MaxWhitelist)
    /\ blocklist \in BoundedSubsets(MixedTexts, MaxBlocklist)
    /\ pending = {}
    /\ buf = <<>>
    /\ file \in { <<>>, StaleFile }
    /\ err = FALSE
    /\ calls = 1
    /\ CompareIdle
    /\ ParseIdle
    /\ MainIdle
    /\ DockerIdle
    /\ ConcIdle

FairSpecMixed == InitMixed /\ [][NextFilter]_vars /\ WF_vars(NextFilter)

(***************************************************************************)
(* SpecRefilter: writeBlocklistFile is called, and when it has succeeded   *)
(* it is called once more with the same whitelist and, as blocklist, the   *)
(* entries of the file it wrote.                                           *)
(***************************************************************************)
Refilter ==
    /\ pc = "returned"
    /\ ~err
    /\ calls = 1
    /\ calls' = 2
    /\ blocklist' = Entries(file)
    /\ pending' = {}
    /\ buf' = <<>>
    /\ pc' = "create"
    /\ UNCHANGED <<whitelist, file, err>>
    /\ UNCHANGED <<cmpVars, parseVars, mainVars>>
    /\ UNCHANGED <<dockerVars, concVars>>

NextRefilter ==
    \/ NextFilter
    \/ Refilter

SpecRefilter == InitFilter /\ [][NextRefilter]_vars

(***************************************************************************)
(* SpecParse: one call of parseIPAddresses on a text of at most MaxLines   *)
(* lines.  The lines are those of the tables of TestParseIPAddresses and   *)
(* TestRemoteWhitelistParsing, and lines with a token inside a comment,    *)
(* surrounding white space, several tokens, and overlong digit runs.       *)
(***************************************************************************)
ParseLines ==
    {
      \* "192.168.1.1"
      <<"1", "9", "2", ".", "1", "6", "8", ".", "1", ".", "1">>,
      \* "10.0.0.0/8"
      <<"1", "0", ".", "0", ".", "0", ".", "0", "/", "8">>,
      \* "# Comment line"
      <<"#", " ", "C", "o", "m", "m", "e", "n", "t", " ", "l", "i", "n", "e">>,
      \* "192.168.1.1 # Internal server"
      <<"1", "9", "2", ".", "1", "6", "8", ".", "1", ".", "1", " ", "#", " ", "I", "n", "t", "e", "r", "n", "a", "l", " ", "s", "e", "r", "v", "e", "r">>,
      \* "DROP 192.168.1.1"
      <<"D", "R", "O", "P", " ", "1", "9", "2", ".", "1", "6", "8", ".", "1", ".", "1">>,
      \* "999.999.999.999"
      <<"9", "9", "9", ".", "9", "9", "9", ".", "9", "9", "9", ".", "9", "9", "9">>,
      \* "192.168.1"
      <<"1", "9", "2", ".", "1", "6", "8", ".", "1">>,
      \* "not.an.ip.address"
      <<"n", "o", "t", ".", "a", "n", ".", "i", "p", ".", "a", "d", "d", "r", "e", "s", "s">>,
      \* ""
      <<>>,
      \* "  10.0.0.5\t"
      <<" ", " ", "1", "0", ".", "0", ".", "0", ".", "5", "\t">>,
      \* "# 10.0.0.5 blocked"
      <<"#", " ", "1", "0", ".", "0", ".", "0", ".", "5", " ", "b", "l", "o", "c", "k", "e", "d">>,
      \* "  # 8.8.8.8"
      <<" ", " ", "#", " ", "8", ".", "8", ".", "8", ".", "8">>,
      \* "1.1.1.1,2.2.2.2/24"
      <<"1", ".", "1", ".", "1", ".", "1", ",", "2", ".", "2", ".", "2", ".", "2", "/", "2", "4">>,
      \* "1234.5.6.7/123"
      <<"1", "2", "3", "4", ".", "5", ".", "6", ".", "7", "/", "1", "2", "3">>,
      \* "1.2.3.4.5.6.7.8"
      <<"1", ".", "2", ".", "3", ".", "4", ".", "5", ".", "6", ".", "7", ".", "8">>,
      \* "10.0.0.5\r"
      <<"1", "0", ".", "0", ".", "0", ".", "5", "\r">>
    }

\* strings.Join(lines, "\n")
RECURSIVE Join(_)
Join(lines) ==
    IF lines = <<>> THEN <<>>
    ELSE IF Len(lines) = 1 THEN lines[1]
    ELSE lines[1] \o <<"\n">> \o Join(Tail(lines))

ParseContents ==
    { Join(ls) : ls \in UNION { [1..n -> ParseLines] : n \in 0..MaxLines } }

InitParse ==
    /\ pc = "parse"
    /\ contents \in ParseContents
    /\ addresses = {}
    /\ CompareIdle
    /\ FilterIdle
    /\ MainIdle
    /\ DockerIdle
    /\ ConcIdle

CallParseIPAddresses ==
    /\ pc = "parse"
    /\ addresses' = parseIPAddresses(contents)
    /\ pc' = "parsed"
    /\ UNCHANGED contents
    /\ UNCHANGED <<cmpVars, filterVars, mainVars>>
    /\ UNCHANGED <<dockerVars, concVars>>

NextParse == CallParseIPAddresses

SpecParse == InitParse /\ [][NextParse]_vars

(***************************************************************************)
(* SpecMain: one run of main (src/main.go:438-485) up to the return of     *)
(* writeBlocklistFile.  The environment decides whether the configuration  *)
(* can be read, what it holds, and how each remote source answers.  The    *)
(* run finds at the path no file or the file of an earlier run; a process  *)
(* inherits nothing else from an earlier one.                              *)
(***************************************************************************)
\* "# office\n10.0.0.5/32 # vpn\n"
WhitelistBodyA ==
    <<"#", " ", "o", "f", "f", "i", "c", "e", "\n", "1", "0", ".", "0",
      ".", "0", ".", "5", "/", "3", "2", " ", "#", " ", "v", "p", "n",
      "\n">>

\* "10.0.0.128/25\r\n999.999.999.999\n"
WhitelistBodyB ==
    <<"1", "0", ".", "0", ".", "0", ".", "1", "2", "8", "/", "2", "5",
      "\r", "\n", "9", "9", "9", ".", "9", "9", "9", ".", "9", "9", "9",
      ".", "9", "9", "9", "\n">>

\* "DROP 10.0.0.200/24\n# 10.0.0.5\n"
BlocklistBodyA ==
    <<"D", "R", "O", "P", " ", "1", "0", ".", "0", ".", "0", ".", "2", "0",
      "0", "/", "2", "4", "\n", "#", " ", "1", "0", ".", "0", ".", "0",
      ".", "5", "\n">>

\* "10.0.0.200/24\n10.0.0.0/24\n192.168.1\n"
BlocklistBodyB ==
    <<"1", "0", ".", "0", ".", "0", ".", "2", "0", "0", "/", "2", "4",
      "\n", "1", "0", ".", "0", ".", "0", ".", "0", "/", "2", "4", "\n",
      "1", "9", "2", ".", "1", "6", "8", ".", "1", "\n">>

\* the URL of the i-th remote list of a kind
URL(kind, i) == <<kind, i>>

URLs(kind, n) == [i \in 1..n |-> URL(kind, i)]

\* the text a source serves
Body(url) ==
    IF url[1] = "whitelist"
    THEN IF url[2] % 2 = 1 THEN WhitelistBodyA ELSE WhitelistBodyB
    ELSE IF url[2] % 2 = 1 THEN BlocklistBodyA ELSE BlocklistBodyB

StatusOK == 200

\* the answers to http.Get(url): no answer, an answer with a status other
\* than 200 (the text is sent all the same), a body that breaks off, or
\* the text with status 200
Responses(url) ==
    { [getErr |-> TRUE, status |-> 0, readErr |-> FALSE, body |-> <<>>],
      [getErr |-> FALSE, status |-> 404, readErr |-> FALSE, body |-> Body(url)],
      [getErr |-> FALSE, status |-> 500, readErr |-> FALSE, body |-> Body(url)],
      [getErr |-> FALSE, status |-> StatusOK, readErr |-> TRUE, body |-> <<>>],
      [getErr |-> FALSE, status |-> StatusOK, readErr |-> FALSE, body |-> Body(url)] }

\* the source answered with status 200 and its whole text
Delivered(resp) == ~resp.getErr /\ resp.status = 200 /\ ~resp.readErr

\* faulty variant: takes the body whatever the status
downloadFile_IgnoreStatus(resp) ==
    IF resp.getErr \/ resp.readErr THEN [contents |-> <<>>, err |-> TRUE]
    ELSE [contents |-> resp.body, err |-> FALSE]

\* downloadFile (lines 217-234) on the answer of the source
downloadFile(resp) ==
    IF resp.getErr THEN [contents |-> <<>>, err |-> TRUE]
    ELSE IF resp.status # StatusOK THEN [contents |-> <<>>, err |-> TRUE]
    ELSE IF resp.readErr THEN [contents |-> <<>>, err |-> TRUE]
    ELSE [contents |-> resp.body, err |-> FALSE]

\* faulty variant: the key is the parsed network, not the text
Insert_Canonical(m, address) ==
    LET c == ParseCIDR(address)
    IN  IF c.err THEN m \cup {address}
        ELSE m \cup { FormatIP(c.Net.IP) \o <<"/">> \o Itoa(MaskSize(c.Net.Mask)) }

\* m[address] = struct{}{}
Insert(m, address) == m \cup {address}

\* for _, address := range list { m[address] = struct{}{} }
RECURSIVE InsertList(_, _)
InsertList(m, list) ==
    IF list = <<>> THEN m ELSE InsertList(Insert(m, Head(list)), Tail(list))

\* for address := range addresses { m[address] = struct{}{} }
InsertKeys(m, keys) == UNION ({m} \cup { Insert(m, a) : a \in keys })

LocalWhitelists == { <<>>, << FormatIP(<<10, 0, 1, 5>>) >> }

LocalBlocklists ==
    { <<>>, << FormatIP(<<10, 0, 1, 5>>), invalidIP, FormatIP(<<10, 0, 1, 5>>) >> }

Configs ==
    { [LocalWhitelist |-> lw, LocalBlocklist |-> lb,
       RemoteWhitelists |-> URLs("whitelist", nw),
       RemoteBlocklists |-> URLs("blocklist", nb),
       NginxContainerNames |-> <<>>] :
         lw \in LocalWhitelists, lb \in LocalBlocklists,
         nw \in 0..MaxRemote, nb \in 0..MaxRemote }

InitMain ==
    /\ pc = "main"
    /\ config = NoConfig
    /\ fetched = <<>>
    /\ file \in { <<>>, StaleFile }
    /\ prev = file
    /\ whitelist = {}
    /\ blocklist = {}
    /\ pending = {}
    /\ buf = <<>>
    /\ err = FALSE
    /\ calls = 0
    /\ CompareIdle
    /\ ParseIdle
    /\ DockerIdle
    /\ ConcIdle

\* readConfig (lines 194-214): fails, or returns the decoded configuration,
\* one of configs
ReadConfigFrom(configs) ==
    /\ pc = "main"
    /\ \/ /\ pc' = "exit"
          /\ UNCHANGED config
       \/ /\ config' \in configs
          /\ pc' = "localWhitelist"
    /\ UNCHANGED <<fetched, prev>>
    /\ UNCHANGED <<cmpVars, filterVars, parseVars>>
    /\ UNCHANGED <<dockerVars, concVars>>

ReadConfig == ReadConfigFrom(Configs)

\* lines 445-448
AddLocalWhitelist ==
    /\ pc = "localWhitelist"
    /\ whitelist' = InsertList({}, config.LocalWhitelist)
    /\ pc' = "remoteWhitelists"
    /\ UNCHANGED <<blocklist, pending, buf, file, err, calls>>
    /\ UNCHANGED <<cmpVars, parseVars, mainVars>>
    /\ UNCHANGED <<dockerVars, concVars>>

\* one iteration of the loop of lines 450-461
FetchWhitelist ==
    /\ pc = "remoteWhitelists"
    /\ Len(fetched) < Len(config.RemoteWhitelists)
    /\ \E resp \in Responses(config.RemoteWhitelists[Len(fetched) + 1]) :
          LET d == downloadFile(resp)
          IN  /\ fetched' = Append(fetched, Delivered(resp))
              /\ whitelist' = IF d.err THEN whitelist
                               ELSE InsertKeys(whitelist, parseIPAddresses(d.contents))
    /\ UNCHANGED <<pc, config, prev>>
    /\ UNCHANGED <<blocklist, pending, buf, file, err, calls>>
    /\ UNCHANGED <<cmpVars, parseVars>>
    /\ UNCHANGED <<dockerVars, concVars>>

\* lines 463-466, after the last remote whitelist
AddLocalBlocklist ==
    /\ pc = "remoteWhitelists"
    /\ Len(fetched) = Len(config.RemoteWhitelists)
    /\ blocklist' = InsertList({}, config.LocalBlocklist)
    /\ pc' = "remoteBlocklists"
    /\ UNCHANGED <<whitelist, pending, buf, file, err, calls>>
    /\ UNCHANGED <<cmpVars, parseVars, mainVars>>
    /\ UNCHANGED <<dockerVars, concVars>>

\* one iteration of the loop of lines 468-479
FetchBlocklist ==
    /\ pc = "remoteBlocklists"
    /\ Len(fetched) < Len(config.RemoteWhitelists) + Len(config.RemoteBlocklists)
    /\ \E resp \in Responses(config.RemoteBlocklists[
                        Len(fetched) - Len(config.RemoteWhitelists) + 1]) :
          LET d == downloadFile(resp)
          IN  /\ fetched' = Append(fetched, Delivered(resp))
              /\ blocklist' = IF d.err THEN blocklist
                               ELSE InsertKeys(blocklist, parseIPAddresses(d.contents))
    /\ UNCHANGED <<pc, config, prev>>
    /\ UNCHANGED <<whitelist, pending, buf, file, err, calls>>
    /\ UNCHANGED <<cmpVars, parseVars>>
    /\ UNCHANGED <<dockerVars, concVars>>

\* line 481: the call of writeBlocklistFile, after the last remote blocklist
CallWriteBlocklistFile ==
    /\ pc = "remoteBlocklists"
    /\ Len(fetched) = Len(config.RemoteWhitelists) + Len(config.RemoteBlocklists)
    /\ calls' = calls + 1
    /\ pc' = "create"
    /\ UNCHANGED <<whitelist, blocklist, pending, buf, file, err>>
    /\ UNCHANGED <<cmpVars, parseVars, mainVars>>
    /\ UNCHANGED <<dockerVars, concVars>>

\* faulty variant: main goes on to the containers after a failed write
WriteReturned_IgnoreError ==
    /\ pc = "returned"
    /\ pc' = "docker"
    /\ UNCHANGED <<cmpVars, filterVars, parseVars, mainVars>>
    /\ UNCHANGED <<dockerVars, concVars>>

\* lines 482-485: main returns on an error, goes on to the containers otherwise
WriteReturned ==
    /\ pc = "returned"
    /\ pc' = IF err THEN "exit" ELSE "docker"
    /\ UNCHANGED <<cmpVars, filterVars, parseVars, mainVars>>
    /\ UNCHANGED <<dockerVars, concVars>>

NextMain ==
    \/ ReadConfig
    \/ AddLocalWhitelist
    \/ FetchWhitelist
    \/ AddLocalBlocklist
    \/ FetchBlocklist
    \/ CallWriteBlocklistFile
    \/ NextFilter
    \/ WriteReturned

SpecMain == InitMain /\ [][NextMain]_vars

(***************************************************************************)
(* SpecConc: goroutines that call writeBlocklistFile at the same time on   *)
(* the same two maps, each with a temporary file of its own                *)
(* (TestNginxConfigConcurrency, src/unnamed/part_003:299-360).  The steps  *)
(* of a call are those of SpecFilter, taken by the writers in any order;   *)
(* the maps are only read.  ioFailed records that os.Create or Flush       *)
(* failed for the writer.                                                  *)
(***************************************************************************)
Writers == {"w1", "w2"}

\* the maps of the test
ConcurrencyWhitelist == { FormatIP(<<192, 168, 1, 1>>) }
ConcurrencyBlocklist == { FormatIP(<<10, 0, 0, 1>>), FormatIP(<<172, 16, 0, 1>>) }

ConcTexts ==
    { FormatIP(<<10, 0, 0, 5>>), Format(Net(<<10, 0, 0, 0>>, 24)), invalidIP }

InitConc ==
    /\ pc = "conc"
    /\ \/ /\ whitelist = ConcurrencyWhitelist
          /\ blocklist = ConcurrencyBlocklist
       \/ /\ whitelist \in BoundedSubsets(ConcTexts, MaxWhitelist)
          /\ blocklist \in BoundedSubsets(ConcTexts, MaxBlocklist)
    /\ procs = [w \in Writers |->
                  [pc |-> "create", pending |-> {}, buf |-> <<>>, file |-> <<>>,
                   err |-> FALSE, ioFailed |-> FALSE]]
    /\ pending = {}
    /\ buf = <<>>
    /\ file = <<>>
    /\ err = FALSE
    /\ calls = 0
    /\ CompareIdle
    /\ ParseIdle
    /\ MainIdle
    /\ DockerIdle

\* what a step of one writer leaves alone
ConcFrame ==
    /\ UNCHANGED <<pc, whitelist, blocklist, pending, buf, file, err, calls>>
    /\ UNCHANGED <<cmpVars, parseVars, mainVars, dockerVars>>

\* os.Create (line 384): fails, or truncates the writer's file
ConcCreateFile(w) ==
    /\ procs[w].pc = "create"
    /\ \/ procs' = [procs EXCEPT ![w].pc = "returned", ![w].err = TRUE,
                                  ![w].ioFailed = TRUE]
       \/ procs' = [procs EXCEPT ![w].pc = "header", ![w].file = <<>>]
    /\ ConcFrame

\* lines 395-399
ConcWriteHeader(w) ==
    /\ procs[w].pc = "header"
    /\ procs' = [procs EXCEPT ![w].buf = @ \o HeaderLines,
                              ![w].pending = blocklist,
                              ![w].pc = "range"]
    /\ ConcFrame

\* faulty variant: the writers share the bufio.Writer of the first of them
ConcWriteEntry_SharedWriter(w) ==
    /\ procs[w].pc = "range"
    /\ \E address \in procs[w].pending :
          IF address \notin whitelist
             /\ \E c \in whitelist : isIPInCIDRPanics(address, c, <<FALSE>>)
          THEN procs' = [procs EXCEPT ![w].pending = @ \ {address},
                                     ![w].pc = "panicked"]
          ELSE IF isIPWhitelisted(address, whitelist)
          THEN procs' = [procs EXCEPT ![w].pending = @ \ {address}]
          ELSE procs' = [[procs EXCEPT ![w].pending = @ \ {address}]
                            EXCEPT !["w1"].buf = Append(@, EntryLine(address))]
    /\ ConcFrame

\* one iteration of the loop of lines 401-408
ConcWriteEntry(w) ==
    /\ procs[w].pc = "range"
    /\ \E address \in procs[w].pending :
          IF address \notin whitelist
             /\ \E c \in whitelist : isIPInCIDRPanics(address, c, <<FALSE>>)
          THEN procs' = [procs EXCEPT ![w].pending = @ \ {address},
                                     ![w].pc = "panicked"]
          ELSE IF isIPWhitelisted(address, whitelist)
          THEN procs' = [procs EXCEPT ![w].pending = @ \ {address}]
          ELSE procs' = [procs EXCEPT ![w].pending = @ \ {address},
                                     ![w].buf = Append(@, EntryLine(address))]
    /\ ConcFrame

\* lines 410-413
ConcWriteFooter(w) ==
    /\ procs[w].pc = "range"
    /\ procs[w].pending = {}
    /\ procs' = [procs EXCEPT ![w].buf = @ \o FooterLines, ![w].pc = "flush"]
    /\ ConcFrame

\* writer.Flush (line 415): writes the buffer to the writer's file, or
\* fails after writing some of it
ConcFlush(w) ==
    /\ procs[w].pc = "flush"
    /\ \/ procs' = [procs EXCEPT ![w].pc = "returned",
                                  ![w].file = @ \o procs[w].buf]
       \/ \E n \in 0..(Len(procs[w].buf) - 1) :
             procs' = [procs EXCEPT ![w].pc = "returned",
                                   ![w].file = @ \o SubSeq(procs[w].buf, 1, n),
                                   ![w].err = TRUE,
                                   ![w].ioFailed = TRUE]
    /\ ConcFrame

NextConc ==
    \/ \E w \in Writers : ConcCreateFile(w)
    \/ \E w \in Writers : ConcWriteHeader(w)
    \/ \E w \in Writers : ConcWriteEntry(w)
    \/ \E w \in Writers : ConcWriteFooter(w)
    \/ \E w \in Writers : ConcFlush(w)

SpecConc == InitConc /\ [][NextConc]_vars

(***************************************************************************)
(* SpecRun: a whole run of main, to the restart of the containers          *)
(* (lines 438-499).  The Docker daemon is the one of MockDockerClient      *)
(* (src/unnamed/part_003:510-542): a stop or a start is recorded, then it  *)
(* fails and changes nothing, or it succeeds and the container is stopped  *)
(* or running.  The lists of the configuration are few, the container      *)
(* names vary.                                                             *)
(***************************************************************************)
ContainerNames == {"nginx1", "nginx2", "nginx3"}

NameLists ==
    { <<>>, <<"nginx1">>, <<"nginx1", "nginx2">>, <<"nginx1", "nginx2", "nginx3">>,
      <<"nginx1", "nginx1">>, <<"nginx2", "nginx1", "nginx2">> }

RunConfigs ==
    { [LocalWhitelist |-> l[1], LocalBlocklist |-> l[2],
       RemoteWhitelists |-> URLs("whitelist", l[3]),
       RemoteBlocklists |-> URLs("blocklist", l[3]),
       NginxContainerNames |-> names] :
         l \in { << <<>>, << FormatIP(<<10, 0, 1, 5>>) >>, 0 >>,
                  << << FormatIP(<<10, 0, 1, 5>>) >>, <<>>, 1 >> },
         names \in NameLists }

\* the containers of the host when the run starts: all running, or one of
\* them stopped
StartStates ==
    { [n \in ContainerNames |-> TRUE],
      [n \in ContainerNames |-> n # "nginx2"] }

InitRun ==
    /\ pc = "main"
    /\ config = NoConfig
    /\ fetched = <<>>
    /\ file \in { <<>>, StaleFile }
    /\ prev = file
    /\ whitelist = {}
    /\ blocklist = {}
    /\ pending = {}
    /\ buf = <<>>
    /\ err = FALSE
    /\ calls = 0
    /\ containers \in StartStates
    /\ stopCalls = <<>>
    /\ startCalls = <<>>
    /\ nameIdx = 0
    /\ restartErr = ""
    /\ CompareIdle
    /\ ParseIdle
    /\ ConcIdle

ReadRunConfig == ReadConfigFrom(RunConfigs)

\* lines 487-491: client.NewClientWithOpts fails and main returns, or the
\* loop of restartNginxContainers starts (lines 419-421)
NewDockerClient ==
    /\ pc = "docker"
    /\ \/ /\ pc' = "exit"
          /\ UNCHANGED nameIdx
       \/ /\ pc' = "stop"
          /\ nameIdx' = 1
    /\ UNCHANGED <<containers, stopCalls, startCalls, restartErr>>
    /\ UNCHANGED <<cmpVars, filterVars, parseVars, mainVars, concVars>>

\* faulty variant: a failed stop is reported and the loop goes on
ContainerStop_ContinueOnError ==
    /\ pc = "stop"
    /\ nameIdx <= Len(config.NginxContainerNames)
    /\ LET containerName == config.NginxContainerNames[nameIdx]
       IN  /\ stopCalls' = Append(stopCalls, containerName)
           /\ \/ /\ restartErr' = "stop"
                 /\ pc' = "start"
                 /\ UNCHANGED containers
              \/ /\ containers' = [containers EXCEPT ![containerName] = FALSE]
                 /\ pc' = "start"
                 /\ UNCHANGED restartErr
    /\ UNCHANGED <<startCalls, nameIdx>>
    /\ UNCHANGED <<cmpVars, filterVars, parseVars, mainVars, concVars>>

\* lines 422-424: cli.ContainerStop for the container the loop is at; on an
\* error restartNginxContainers returns it and main returns (lines 493-496)
ContainerStop ==
    /\ pc = "stop"
    /\ nameIdx <= Len(config.NginxContainerNames)
    /\ LET containerName == config.NginxContainerNames[nameIdx]
       IN  /\ stopCalls' = Append(stopCalls, containerName)
           /\ \/ /\ restartErr' = "stop"
                 /\ pc' = "exit"
                 /\ UNCHANGED containers
              \/ /\ containers' = [containers EXCEPT ![containerName] = FALSE]
                 /\ pc' = "start"
                 /\ UNCHANGED restartErr
    /\ UNCHANGED <<startCalls, nameIdx>>
    /\ UNCHANGED <<cmpVars, filterVars, parseVars, mainVars, concVars>>

\* faulty variant: a failed start is reported and the loop goes on
ContainerStart_ContinueOnError ==
    /\ pc = "start"
    /\ LET containerName == config.NginxContainerNames[nameIdx]
       IN  /\ startCalls' = Append(startCalls, containerName)
           /\ \/ /\ restartErr' = "start"
                 /\ pc' = "stop"
                 /\ nameIdx' = nameIdx + 1
                 /\ UNCHANGED containers
              \/ /\ containers' = [containers EXCEPT ![containerName] = TRUE]
                 /\ pc' = "stop"
                 /\ nameIdx' = nameIdx + 1
                 /\ UNCHANGED restartErr
    /\ UNCHANGED stopCalls
    /\ UNCHANGED <<cmpVars, filterVars, parseVars, mainVars, concVars>>

\* lines 425-428: cli.ContainerStart for the container just stopped; on an
\* error restartNginxContainers returns it and main returns, otherwise the
\* loop moves to the next name
ContainerStart ==
    /\ pc = "start"
    /\ LET containerName == config.NginxContainerNames[nameIdx]
       IN  /\ startCalls' = Append(startCalls, containerName)
           /\ \/ /\ restartErr' = "start"
                 /\ pc' = "exit"
                 /\ UNCHANGED <<containers, nameIdx>>
              \/ /\ containers' = [containers EXCEPT ![containerName] = TRUE]
                 /\ pc' = "stop"
                 /\ nameIdx' = nameIdx + 1
                 /\ UNCHANGED restartErr
    /\ UNCHANGED stopCalls
    /\ UNCHANGED <<cmpVars, filterVars, parseVars, mainVars, concVars>>

\* line 434 and lines 493-498: after the last name restartNginxContainers
\* returns nil and main ends
RestartReturned ==
    /\ pc = "stop"
    /\ nameIdx > Len(config.NginxContainerNames)
    /\ restartErr' = "nil"
    /\ pc' = "exit"
    /\ UNCHANGED <<containers, stopCalls, startCalls, nameIdx>>
    /\ UNCHANGED <<cmpVars, filterVars, parseVars, mainVars, concVars>>

NextRun ==
    \/ ReadRunConfig
    \/ AddLocalWhitelist
    \/ FetchWhitelist
    \/ AddLocalBlocklist
    \/ FetchBlocklist
    \/ CallWriteBlocklistFile
    \/ NextFilter
    \/ WriteReturned
    \/ NewDockerClient
    \/ ContainerStop
    \/ ContainerStart
    \/ RestartReturned

SpecRun == InitRun /\ [][NextRun]_vars

\* writeBlocklistFile returned nil
Written == pc = "returned" /\ ~err

(***************************************************************************)
(* The address range an entry denotes: the masked base and the last        *)
(* address of the block, as <<high, low>> pairs of 16-bit halves.          *)
(***************************************************************************)
PrefixLen(e) == IF e.prefix = NoPrefix THEN 32 ELSE e.prefix

AddrPair(a) == <<a[1] * 256 + a[2], a[3] * 256 + a[4]>>

RangeStart(e) ==
    LET v == AddrPair(e.addr)
        p == PrefixLen(e)
    IN  IF p >= 16
        THEN <<v[1], v[2] - (v[2] % Pow2(32 - p))>>
        ELSE <<v[1] - (v[1] % Pow2(16 - p)), 0>>

RangeEnd(e) ==
    LET s == RangeStart(e)
        p == PrefixLen(e)
    IN  IF p >= 16
        THEN <<s[1], s[2] + Pow2(32 - p) - 1>>
        ELSE <<s[1] + Pow2(16 - p) - 1, Pow2(16) - 1>>

PairLe(x, y) == x[1] < y[1] \/ (x[1] = y[1] /\ x[2] <= y[2])

\* the two ranges share an address
Intersect(e, f) ==
    PairLe(RangeStart(e), RangeEnd(f)) /\ PairLe(RangeStart(f), RangeEnd(e))

\* the range of e lies inside the range of f
Inside(e, f) ==
    PairLe(RangeStart(f), RangeStart(e)) /\ PairLe(RangeEnd(e), RangeEnd(f))

IsHostText(t) == t \in ValidTexts /\ EntryOf[t].prefix = NoPrefix
IsNetText(t) == t \in ValidTexts /\ EntryOf[t].prefix # NoPrefix

Returned == pc = "cmp_returned"

C2_OverlapIffRangesIntersect ==
    (Returned /\ ~strict(strictMode) /\ ip \in ValidTexts /\ cidr \in ValidTexts)
        => (covered <=> Intersect(EntryOf[ip], EntryOf[cidr]))

(***************************************************************************)
(* C3: in strict mode, for well-formed A and B, isIPInCIDR(A, B) is true   *)
(* exactly when B.start <= A.start and A.end <= B.end.                     *)
(***************************************************************************)
C3_StrictIffInside ==
    (Returned /\ strict(strictMode) /\ ip \in ValidTexts /\ cidr \in ValidTexts)
        => (covered <=> Inside(EntryOf[ip], EntryOf[cidr]))

(***************************************************************************)
(* C4: for a host h and a CIDR c, in either mode, isIPInCIDR(h, c) is true *)
(* exactly when start(c) <= h <= end(c), both ends included.               *)
(***************************************************************************)
C4_HostInCIDRInclusive ==
    (Returned /\ IsHostText(ip) /\ IsNetText(cidr))
        => (covered <=> /\ PairLe(RangeStart(EntryOf[cidr]), AddrPair(EntryOf[ip].addr))
                        /\ PairLe(AddrPair(EntryOf[ip].addr), RangeEnd(EntryOf[cidr])))

\* a host that is the last address of a block of several addresses, strict mode
C4_Witness ==
    /\ Returned
    /\ strict(strictMode)
    /\ IsHostText(ip)
    /\ IsNetText(cidr)
    /\ AddrPair(EntryOf[ip].addr) = RangeEnd(EntryOf[cidr])
    /\ RangeStart(EntryOf[cidr]) # RangeEnd(EntryOf[cidr])
    /\ covered

C6_EmittedAreBlocklistKeys ==
    /\ Entries(buf) \subseteq blocklist
    /\ Written => Entries(file) \subseteq blocklist

\* a CIDR with host bits set was written while another entry was suppressed
C6_Witness ==
    /\ Written
    /\ Format(Net(<<10, 0, 0, 200>>, 24)) \in Entries(file)
    /\ Entries(file) # blocklist

(***************************************************************************)
(* C7: a malformed whitelist entry never suppresses a blocklist entry:     *)
(* the file holds what the filter gives for the whitelist without its      *)
(* malformed entries.                                                      *)
(***************************************************************************)
C7_MalformedNeverSuppresses ==
    Written =>
        Entries(file) =
            { b \in blocklist : ~isIPWhitelisted(b, whitelist \cap ValidTexts) }

(***************************************************************************)
(* C8: a malformed blocklist entry is matched by no well-formed whitelist  *)
(* entry in any mode, and when every whitelist entry is well-formed it is  *)
(* in the file.                                                            *)
(***************************************************************************)
C8_MalformedCandidateEmitted ==
    (Written /\ whitelist \subseteq ValidTexts) =>
        \A b \in blocklist \cap MalformedTexts :
            /\ b \in Entries(file)
            /\ \A w \in whitelist : \A m \in StrictArgs : ~isIPInCIDR(b, w, m)

\* a malformed blocklist entry was written past a non-empty well-formed whitelist
C8_Witness ==
    /\ Written
    /\ whitelist # {}
    /\ whitelist \subseteq ValidTexts
    /\ blocklist \cap MalformedTexts # {}
    /\ blocklist \cap MalformedTexts \subseteq Entries(file)

(***************************************************************************)
(* C9: when either operand is malformed, isIPInCIDR returns false in       *)
(* either mode and does not panic.                                         *)
(***************************************************************************)
C9_MalformedOperandFalse ==
    (pc # "cmp" /\ (ip \in MalformedTexts \/ cidr \in MalformedTexts))
        => (Returned /\ ~covered /\ ~panicked)

\* the same malformed text on both sides, strict mode
C9_Witness ==
    /\ Returned
    /\ ip \in MalformedTexts
    /\ cidr = ip
    /\ strict(strictMode)
    /\ ~covered

(***************************************************************************)
(* C10 as claimed: for every entry text A, isIPInCIDR(A, A) is true in     *)
(* either mode.                                                            *)
(***************************************************************************)
C10_EqualTextCovered ==
    (Returned /\ ip = cidr) => covered

(***************************************************************************)
(* C10 as amended: for every entry text A that parses as an address or a   *)
(* CIDR, isIPInCIDR(A, A) is true in either mode.                          *)
(***************************************************************************)
C10_EqualValidTextCovered ==
    (Returned /\ ip = cidr /\ ip \in ValidTexts) => covered

\* a CIDR with host bits set compared with itself in strict mode
C10_Witness ==
    /\ Returned
    /\ ip = cidr
    /\ ip = Format(Net(<<10, 0, 0, 200>>, 24))
    /\ strict(strictMode)
    /\ covered

(***************************************************************************)
(* C11: the overlap policy is symmetric: for all entry texts A and B       *)
(* (hosts, CIDRs with or without host bits set, malformed text),           *)
(* isIPInCIDR(A, B) in non-strict mode equals isIPInCIDR(B, A) in          *)
(* non-strict mode.                                                        *)
(***************************************************************************)
C11_OverlapSymmetric ==
    (Returned /\ ~strict(strictMode))
        => (covered <=> isIPInCIDR(cidr, ip, strictMode))

\* two CIDRs of different sizes, neither base inside the other block, that
\* the partial-overlap check of lines 352-360 reports as overlapping
C11_Witness ==
    /\ Returned
    /\ ~strict(strictMode)
    /\ IsNetText(ip)
    /\ IsNetText(cidr)
    /\ EntryOf[ip].prefix # EntryOf[cidr].prefix
    /\ ~Contains(ParseCIDR(cidr).Net, ParseCIDR(ip).IP)
    /\ ~Contains(ParseCIDR(ip).Net, ParseCIDR(cidr).IP)
    /\ covered

\* the two entries denote different address ranges
RangesDiffer(e, f) == RangeStart(e) # RangeStart(f) \/ RangeEnd(e) # RangeEnd(f)

(***************************************************************************)
(* C12: strict containment is antisymmetric for unequal ranges: for        *)
(* well-formed A and B that denote different address ranges,               *)
(* isIPInCIDR(A, B, strict) and isIPInCIDR(B, A, strict) are never both    *)
(* true.                                                                   *)
(***************************************************************************)
C12_StrictAntisymmetric ==
    (/\ Returned
     /\ strict(strictMode)
     /\ ip \in ValidTexts
     /\ cidr \in ValidTexts
     /\ RangesDiffer(EntryOf[ip], EntryOf[cidr]))
        => ~(covered /\ isIPInCIDR(cidr, ip, strictMode))

(***************************************************************************)
(* C14: a host is equivalent to a range of prefix length 32: for every     *)
(* host text h and every entry text X, writing h/32 for h as the           *)
(* candidate, or as the reference, leaves the result of isIPInCIDR         *)
(* unchanged in either mode.                                               *)
(***************************************************************************)
C14_HostIsSlash32 ==
    /\ (Returned /\ IsHostText(ip))
          => (covered <=> isIPInCIDR(ip \o Slash32, cidr, strictMode))
    /\ (Returned /\ IsHostText(cidr))
          => (covered <=> isIPInCIDR(ip, cidr \o Slash32, strictMode))

(***************************************************************************)
(* C19: the file written by writeBlocklistFile is, in this order, the      *)
(* header comment, the geo $blocked_ip opening, the default 0 line, one    *)
(* entry line per surviving blocklist entry (each survivor once; with an   *)
(* empty whitelist as many entry lines as the blocklist has entries) and   *)
(* the closing brace; no entry line comes before the default line or       *)
(* after the closing brace.                                                *)
(***************************************************************************)
C19_FileLayout ==
    Written =>
        LET n == Len(file)
            body == 6..(n - 2)
        IN  /\ n >= 7
            /\ file[1] = <<"# blocklist.conf">>
            /\ file[2] = <<>>
            /\ file[3] = <<"geo $blocked_ip {">>
            /\ file[4] = <<"    default        0;">>
            /\ file[5] = <<>>
            /\ file[n - 1] = <<>>
            /\ file[n] = <<"}">>
            /\ \A i \in body : IsEntryLine(file[i])
            /\ \A i \in body : \A j \in body : file[i] = file[j] => i = j
            /\ { SubSeq(file[i], 2, Len(file[i]) - 1) : i \in body }
                  = { b \in blocklist : ~isIPWhitelisted(b, whitelist) }
            /\ whitelist = {} => n = 7 + Cardinality(blocklist)

\* two entry lines were written between the default line and the closing
\* brace, and other blocklist entries were suppressed
C19_Witness ==
    /\ Written
    /\ Len(file) = 9
    /\ IsEntryLine(file[6])
    /\ IsEntryLine(file[7])
    /\ Cardinality(blocklist) > 2

(***************************************************************************)
(* The reading of a text by the words of the specification: the lines are  *)
(* the maximal stretches without a newline; a token is four groups of one  *)
(* to three digits separated by dots, with an optional slash and one or    *)
(* two digits; the tokens of a line are found from left to right, each the *)
(* longest at its place.                                                   *)
(***************************************************************************)
IsToken(t) ==
    LET dots    == { i \in 1..Len(t) : t[i] = "." }
        slashes == { i \in 1..Len(t) : t[i] = "/" }
        last    == IF slashes = {} THEN Len(t) ELSE (CHOOSE i \in slashes : TRUE) - 1
        cuts    == dots \cup {0, last + 1}
    IN  /\ \A i \in 1..Len(t) : IsDigit(t[i]) \/ t[i] = "." \/ t[i] = "/"
        /\ Cardinality(dots) = 3
        /\ Cardinality(slashes) <= 1
        /\ \A i \in dots : i <= last
        /\ Cardinality(cuts) = 5
        /\ \A i \in cuts : i <= last =>
              LET next == CHOOSE j \in cuts : j > i /\ \A k \in cuts : k > i => j <= k
              IN  next - i - 1 \in 1..3
        /\ slashes # {} => Len(t) - last - 1 \in 1..2

RECURSIVE TokensFrom(_, _)
TokensFrom(line, i) ==
    IF i > Len(line) THEN {}
    ELSE LET ends == { j \in i..Len(line) : IsToken(SubSeq(line, i, j)) }
         IN  IF ends = {} THEN TokensFrom(line, i + 1)
             ELSE LET j == CHOOSE m \in ends : \A k \in ends : k <= m
                  IN  {SubSeq(line, i, j)} \cup TokensFrom(line, j + 1)

\* the line without the white space around it
Trimmed(line) ==
    LET inked == { i \in 1..Len(line) : ~IsSpace(line[i]) }
    IN  IF inked = {} THEN <<>>
        ELSE SubSeq(line, CHOOSE i \in inked : \A k \in inked : i <= k,
                          CHOOSE i \in inked : \A k \in inked : k <= i)

LineTokens(line) ==
    IF IsToken(Trimmed(line)) THEN {Trimmed(line)} ELSE TokensFrom(line, 1)

LinesOf(text) ==
    { SubSeq(text, a, b) : <<a, b>> \in
        { ab \in (1..(Len(text) + 1)) \X (0..Len(text)) :
            /\ ab[1] <= ab[2] + 1
            /\ (ab[1] = 1 \/ text[ab[1] - 1] = "\n")
            /\ (ab[2] = Len(text) \/ text[ab[2] + 1] = "\n")
            /\ \A i \in ab[1]..ab[2] : text[i] # "\n" } }

IsCommentLine(line) == Trimmed(line) # <<>> /\ Trimmed(line)[1] = "#"

Parsed == pc = "parsed"

(***************************************************************************)
(* C15 as claimed: parseIPAddresses returns exactly the distinct tokens of *)
(* the lines of the text, each line scanned on its own: the whole trimmed  *)
(* line when it is one token, otherwise every token within the line.       *)
(***************************************************************************)
C15_TokensOfEveryLine ==
    Parsed => addresses = UNION { LineTokens(l) : l \in LinesOf(contents) }

(***************************************************************************)
(* C15 as amended: parseIPAddresses returns exactly the distinct tokens of *)
(* the lines of the text whose first character after trimming is not '#',  *)
(* each line scanned on its own: the whole trimmed line when it is one     *)
(* token, otherwise every token within the line.                           *)
(***************************************************************************)
C15_TokensOfNonCommentLines ==
    Parsed =>
        addresses =
            UNION { LineTokens(l) : l \in { m \in LinesOf(contents) : ~IsCommentLine(m) } }

\* a comment line holding a token was skipped and a token was taken out of
\* the middle of another line
C15_Witness ==
    /\ Parsed
    /\ \E l \in LinesOf(contents) : IsCommentLine(l) /\ TokensFrom(l, 1) # {}
    /\ \E l \in LinesOf(contents) :
          /\ ~IsCommentLine(l)
          /\ ~IsToken(Trimmed(l))
          /\ TokensFrom(l, 1) # {}
          /\ TokensFrom(l, 1) = addresses

(***************************************************************************)
(* C13: filtering is idempotent: when the output of the filter for W and   *)
(* B is filtered against the same W again, the second file holds exactly   *)
(* the entries of the first; none is removed.                              *)
(***************************************************************************)
C13_FilterIdempotent ==
    (Written /\ calls = 2) => Entries(file) = blocklist

\* the first call kept two of the five entries of TestBlocklistGeneration,
\* the second call kept both
C13_Witness ==
    /\ Written
    /\ calls = 2
    /\ whitelist = Texts(GenerationWhitelist)
    /\ blocklist = { FormatIP(<<45, 135, 193, 100>>), FormatIP(<<192, 168, 1, 1>>) }
    /\ Entries(file) = blocklist

(***************************************************************************)
(* What a run is to build from its configuration and from the sources      *)
(* that answered with status 200 and their whole text.                     *)
(***************************************************************************)
ExpectedTokens(text) ==
    UNION { LineTokens(l) : l \in { m \in LinesOf(text) : ~IsCommentLine(m) } }

ListEntries(list) == { list[i] : i \in 1..Len(list) }

\* the remote whitelists, and the remote blocklists, that were delivered
DeliveredWhitelists ==
    { config.RemoteWhitelists[i] :
        i \in { k \in 1..Len(config.RemoteWhitelists) : k <= Len(fetched) /\ fetched[k] } }

DeliveredBlocklists ==
    { config.RemoteBlocklists[i] :
        i \in { k \in 1..Len(config.RemoteBlocklists) :
                  /\ Len(config.RemoteWhitelists) + k <= Len(fetched)
                  /\ fetched[Len(config.RemoteWhitelists) + k] } }

ExpectedWhitelist ==
    ListEntries(config.LocalWhitelist)
        \cup UNION { ExpectedTokens(Body(u)) : u \in DeliveredWhitelists }

ExpectedBlocklist ==
    ListEntries(config.LocalBlocklist)
        \cup UNION { ExpectedTokens(Body(u)) : u \in DeliveredBlocklists }

Parses(t) == ParseIP(t) # nilIP \/ ~ParseCIDR(t).err

C17_KeyedByText ==
    Written =>
        /\ whitelist = ExpectedWhitelist
        /\ blocklist = ExpectedBlocklist
        /\ \A a \in ExpectedBlocklist \cap ValidTexts :
           \A b \in ExpectedBlocklist \cap ValidTexts :
              (a # b /\ ~RangesDiffer(EntryOf[a], EntryOf[b]))
                 => /\ a \in blocklist
                    /\ b \in blocklist
                    /\ (~isIPWhitelisted(a, whitelist) /\ ~isIPWhitelisted(b, whitelist))
                          => (a \in Entries(file) /\ b \in Entries(file))
        /\ Len(file) = 7 + Cardinality(Entries(file))

\* 10.0.0.200/24 came from both remote blocklists and is one member;
\* 10.0.0.0/24 is the same range and a second member; both were written,
\* and so was the local entry listed twice
C17_Witness ==
    /\ Written
    /\ DeliveredBlocklists = { URL("blocklist", 1), URL("blocklist", 2) }
    /\ Len(config.LocalBlocklist) = 3
    /\ Cardinality(blocklist) = 4
    /\ Format(Net(<<10, 0, 0, 200>>, 24)) \in Entries(file)
    /\ Format(Net(<<10, 0, 0, 0>>, 24)) \in Entries(file)
    /\ Len(file) = 7 + 4

(***************************************************************************)
(* C18: a remote source whose fetch fails (no answer, a status other than  *)
(* 200) contributes no entry and does not end the run: when                *)
(* writeBlocklistFile is called every configured source has been fetched,  *)
(* and the sets hold the local entries and the entries of the delivered    *)
(* sources only; after a fetch the run ends early only when the file       *)
(* cannot be written.                                                      *)
(***************************************************************************)
C18_FailedFetchSkipped ==
    /\ calls >= 1 =>
          /\ Len(fetched) = Len(config.RemoteWhitelists) + Len(config.RemoteBlocklists)
          /\ whitelist = ExpectedWhitelist
          /\ blocklist = ExpectedBlocklist
    /\ (pc = "exit" /\ fetched # <<>>) => (calls = 1 /\ err)

\* the first whitelist and the second blocklist failed, the other two
\* sources were merged and the file was written
C18_Witness ==
    /\ Written
    /\ fetched = <<FALSE, TRUE, TRUE, FALSE>>
    /\ Len(config.RemoteWhitelists) = 2
    /\ Format(Net(<<10, 0, 0, 128>>, 25)) \in whitelist
    /\ Format(Net(<<10, 0, 0, 200>>, 24)) \in blocklist
    /\ Format(Net(<<10, 0, 0, 0>>, 24)) \notin blocklist

(***************************************************************************)
(* C20: every run recomputes from scratch: the entries of the file after   *)
(* a successful run are those its configuration and the content it         *)
(* fetched give, whatever file an earlier run left; the file holds no      *)
(* line of the earlier file.                                               *)
(***************************************************************************)
C20_OutputFromThisRunOnly ==
    Written =>
        /\ Entries(file) =
              { b \in ExpectedBlocklist :
                  /\ b \notin ExpectedWhitelist
                  /\ \A w \in ExpectedWhitelist : ~isIPInCIDR(b, w, <<>>) }
        /\ Len(file) = 7 + Cardinality(Entries(file))

\* the run found the file of an earlier run and wrote a file with other
\* entries, without the entry of the earlier file
C20_Witness ==
    /\ Written
    /\ prev = StaleFile
    /\ Entries(file) # {}
    /\ Entries(file) \cap Entries(prev) = {}

\* the comparison went through the integer arithmetic of lines 352-357
ReachedArithmetic ==
    /\ Returned
    /\ ~strict(strictMode)
    /\ IsNetText(ip)
    /\ IsNetText(cidr)
    /\ ip # cidr
    /\ ~Contains(ParseCIDR(cidr).Net, ParseCIDR(ip).IP)
    /\ ~Contains(ParseCIDR(ip).Net, ParseCIDR(cidr).IP)

\* ipStart and ipEnd (cidrStart and cidrEnd) as lines 352-357 compute them
StartUsed(t) == ipv4ToUint32(ParseCIDR(t).IP)
EndUsed(t) == RangeEndOf(StartUsed(t), MaskSize(ParseCIDR(t).Net.Mask))

(***************************************************************************)
(* C25: for every valid CIDR the range used in a comparison is start =     *)
(* masked base and end = start + 2^(32 - prefixLen) - 1, without wrapping  *)
(* past 2^32 - 1, so start <= end; prefix length 0 gives start = 0 and     *)
(* end = 2^32 - 1, prefix length 32 gives start = end.                     *)
(***************************************************************************)
C25_RangeBoundsInAddressSpace ==
    ReachedArithmetic =>
        \A t \in {ip, cidr} :
            /\ StartUsed(t) = RangeStart(EntryOf[t])
            /\ EndUsed(t) = RangeEnd(EntryOf[t])
            /\ U32Le(StartUsed(t), EndUsed(t))

(***************************************************************************)
(* C28: strict coverage implies overlap coverage: for all operand texts A  *)
(* and B, when isIPInCIDR(A, B, strict) is true, isIPInCIDR(A, B) in       *)
(* non-strict mode is true.                                                *)
(***************************************************************************)
C28_StrictImpliesOverlap ==
    (Returned /\ strict(strictMode) /\ covered) => isIPInCIDR(ip, cidr, <<FALSE>>)

\* a CIDR strictly inside a larger CIDR of another text
C28_Witness ==
    /\ Returned
    /\ strict(strictMode)
    /\ covered
    /\ IsNetText(ip)
    /\ IsNetText(cidr)
    /\ EntryOf[cidr].prefix < EntryOf[ip].prefix
    /\ isIPInCIDR(ip, cidr, <<FALSE>>)

\* the base of the CIDR has no host bit set
IsCanonical(e) == AddrPair(e.addr) = RangeStart(e)

\* the address x lies in the range of e
InRange(x, e) == PairLe(RangeStart(e), x) /\ PairLe(x, RangeEnd(e))

(***************************************************************************)
(* C30: for two valid CIDRs in canonical form the non-strict result of     *)
(* isIPInCIDR is "one block contains the other's network address"; the     *)
(* integer arithmetic after the two Contains checks never changes the      *)
(* answer.                                                                 *)
(***************************************************************************)
C30_CanonicalOverlapIsContainment ==
    (/\ Returned
     /\ ~strict(strictMode)
     /\ IsNetText(ip)
     /\ IsNetText(cidr)
     /\ IsCanonical(EntryOf[ip])
     /\ IsCanonical(EntryOf[cidr]))
        => (covered <=> \/ InRange(RangeStart(EntryOf[ip]), EntryOf[cidr])
                        \/ InRange(RangeStart(EntryOf[cidr]), EntryOf[ip]))

\* two canonical blocks side by side went through the arithmetic and were
\* found disjoint
C30_Witness ==
    /\ ReachedArithmetic
    /\ IsCanonical(EntryOf[ip])
    /\ IsCanonical(EntryOf[cidr])
    /\ RangeEnd(EntryOf[ip])[1] = RangeStart(EntryOf[cidr])[1]
    /\ RangeEnd(EntryOf[ip])[2] + 1 = RangeStart(EntryOf[cidr])[2]
    /\ ~covered

(***************************************************************************)
(* C22: the filter stage never modifies its inputs: no step of             *)
(* writeBlocklistFile, up to its return with success or with an error,     *)
(* adds a key to or removes a key from the whitelist or the blocklist.     *)
(***************************************************************************)
C22_InputsUnchanged ==
    [][whitelist' = whitelist /\ blocklist' = blocklist]_vars

\* the call has returned after suppressing a blocklist entry, which the
\* blocklist still holds
C22_Witness ==
    /\ Written
    /\ calls = 1
    /\ whitelist # {}
    /\ \E b \in blocklist : b \notin Entries(file) /\ b \notin whitelist

(***************************************************************************)
(* C29: the filter decides each blocklist entry independently of the       *)
(* others: for every way of writing the blocklist B as B1 union B2 the     *)
(* output for B is the union of the outputs for B1 and B2; and enlarging   *)
(* the whitelist never adds an entry to the output: the output for W is    *)
(* inside the output for every subset of W and contains the output for W   *)
(* with one more entry.                                                    *)
(***************************************************************************)
C29_DistributesAndAntitone ==
    Written =>
        /\ \A B1 \in SUBSET blocklist : \A B2 \in SUBSET blocklist :
               B1 \cup B2 = blocklist
                   => Entries(file) = Emitted(whitelist, B1) \cup Emitted(whitelist, B2)
        /\ \A W1 \in SUBSET whitelist : Entries(file) \subseteq Emitted(W1, blocklist)
        /\ \A w \in SplitTexts :
               Emitted(whitelist \cup {w}, blocklist) \subseteq Entries(file)

\* a blocklist of two entries, one of them suppressed by the whitelist and
\* one of them covering the other
C29_Witness ==
    /\ Written
    /\ calls = 1
    /\ Cardinality(blocklist) = 2
    /\ Cardinality(Entries(file)) = 1
    /\ \E a \in blocklist : \E b \in blocklist \ {a} : isIPInCIDR(a, b, <<FALSE>>)

\* the largest number of steps the call can still take
Remaining ==
    CASE pc = "create" -> Cardinality(blocklist) + 4
      [] pc = "header" -> Cardinality(blocklist) + 3
      [] pc = "range"  -> Cardinality(pending) + 2
      [] pc = "flush"  -> 1
      [] OTHER         -> 0

(***************************************************************************)
(* C24: a filter pass over finite sets always ends with a result and is    *)
(* never aborted by a malformed entry: whatever texts that are not IPv4    *)
(* entries the whitelist and the blocklist hold, the call never panics,    *)
(* every step brings it nearer to its return, and when it returns without  *)
(* an error every well-formed blocklist entry is in the file exactly when  *)
(* no well-formed whitelist entry covers it.                               *)
(***************************************************************************)
C24_PassCompletesDespiteMalformed ==
    /\ [](pc # "panicked")
    /\ [][Remaining' < Remaining]_vars
    /\ [](Written =>
            \A b \in blocklist \cap ValidTexts :
                b \in Entries(file) <=> ~isIPWhitelisted(b, whitelist \cap ValidTexts))

\* the elements of a sequence
Elems(seq) == { seq[i] : i \in 1..Len(seq) }

IsPrefix(seq, of) == Len(seq) <= Len(of) /\ seq = SubSeq(of, 1, Len(seq))

Distinct(seq) == \A i \in 1..Len(seq) : \A j \in 1..Len(seq) : seq[i] = seq[j] => i = j

\* restartNginxContainers has been entered
RestartBegun == nameIdx >= 1

(***************************************************************************)
(* C21: restartNginxContainers goes through the names in the given order,  *)
(* one at a time: the stop calls and the start calls made so far are each  *)
(* a beginning of the list of names, a start is called only for the        *)
(* container whose stop just succeeded, and after the first stop or start  *)
(* that fails the function has returned that error and no further call is  *)
(* made.                                                                   *)
(***************************************************************************)
C21_RestartInOrder ==
    RestartBegun =>
        /\ IsPrefix(stopCalls, config.NginxContainerNames)
        /\ IsPrefix(startCalls, stopCalls)
        /\ Len(stopCalls) <= Len(startCalls) + 1
        /\ pc = "start" =>
               /\ Len(stopCalls) = Len(startCalls) + 1
               /\ Len(stopCalls) = nameIdx
               /\ ~containers[stopCalls[Len(stopCalls)]]
        /\ pc = "stop" => (Len(stopCalls) = Len(startCalls) /\ Len(stopCalls) = nameIdx - 1)
        /\ restartErr = "" => pc \in {"stop", "start"}
        /\ restartErr = "stop" =>
               (pc = "exit" /\ Len(stopCalls) = nameIdx /\ Len(startCalls) = nameIdx - 1)
        /\ restartErr = "start" =>
               (pc = "exit" /\ Len(stopCalls) = nameIdx /\ Len(startCalls) = nameIdx)
        /\ restartErr = "nil" =>
               /\ pc = "exit"
               /\ stopCalls = config.NginxContainerNames
               /\ startCalls = config.NginxContainerNames

\* the stop of the second of three containers failed
C21_Witness ==
    /\ restartErr = "stop"
    /\ Len(config.NginxContainerNames) = 3
    /\ stopCalls = <<"nginx1", "nginx2">>
    /\ startCalls = <<"nginx1">>

\* the listed containers that are stopped
StoppedListed == { n \in Elems(config.NginxContainerNames) : ~containers[n] }

\* every listed container that no call has reached is running
UntouchedRunning ==
    \A n \in Elems(config.NginxContainerNames) : n \notin Elems(stopCalls) => containers[n]

(***************************************************************************)
(* C27: when the names are distinct and all listed containers were running *)
(* at the start, at most one of them is stopped at any moment of           *)
(* restartNginxContainers; when it returns nil all of them are running;    *)
(* when a start fails exactly that container is stopped and every later    *)
(* one is running and has had no call.                                     *)
(***************************************************************************)
C27_AtMostOneStopped ==
    (RestartBegun /\ Distinct(config.NginxContainerNames) /\ UntouchedRunning) =>
        /\ Cardinality(StoppedListed) <= 1
        /\ restartErr = "nil" => StoppedListed = {}
        /\ restartErr = "start" =>
               /\ nameIdx <= Len(config.NginxContainerNames)
               /\ StoppedListed = { config.NginxContainerNames[nameIdx] }
               /\ \A k \in (nameIdx + 1)..Len(config.NginxContainerNames) :
                      /\ containers[config.NginxContainerNames[k]]
                      /\ config.NginxContainerNames[k] \notin Elems(stopCalls)
                      /\ config.NginxContainerNames[k] \notin Elems(startCalls)

\* of three containers the first was restarted, the start of the second
\* failed, the third was left alone
C27_Witness ==
    /\ restartErr = "start"
    /\ config.NginxContainerNames = <<"nginx1", "nginx2", "nginx3">>
    /\ nameIdx = 2
    /\ containers["nginx1"]
    /\ ~containers["nginx2"]
    /\ containers["nginx3"]

\* the steps of main in their order
Rank(p) ==
    CASE p = "main"             -> 0
      [] p = "localWhitelist"   -> 1
      [] p = "remoteWhitelists" -> 2
      [] p = "remoteBlocklists" -> 3
      [] p \in {"create", "header", "range", "flush", "returned"} -> 4
      [] p = "docker"           -> 5
      [] p \in {"stop", "start"} -> 6
      [] OTHER                  -> 7

\* a container has been touched
Touched == stopCalls # <<>> \/ startCalls # <<>>

(***************************************************************************)
(* C26: the steps of a run happen in the order read config, build          *)
(* whitelist, build blocklist, write file, create Docker client, restart   *)
(* containers, and a step happens only when the earlier ones succeeded:    *)
(* the file is written only after every list was built, the client is      *)
(* created and a container touched only after the file was written without *)
(* error; when reading the config fails no file is written and no          *)
(* container is touched, and when writing the file fails no container is   *)
(* touched.                                                                *)
(***************************************************************************)
C26_StepsInOrder ==
    /\ [][Rank(pc') >= Rank(pc)]_vars
    /\ [](Rank(pc) >= 1 /\ Rank(pc) <= 6 => config \in RunConfigs)
    /\ [](calls >= 1 =>
            /\ config \in RunConfigs
            /\ Len(fetched) = Len(config.RemoteWhitelists) + Len(config.RemoteBlocklists)
            /\ calls = 1)
    /\ []((Rank(pc) \in {5, 6} \/ RestartBegun \/ Touched) =>
            /\ calls = 1
            /\ ~err
            /\ file = buf)
    /\ []((pc = "exit" /\ config = NoConfig) =>
            /\ calls = 0
            /\ file = prev
            /\ ~Touched)
    /\ [](err => (pc \in {"returned", "exit"} /\ ~RestartBegun /\ ~Touched))

\* the write failed in a run whose configuration names containers
C26_Witness ==
    /\ pc = "exit"
    /\ err
    /\ calls = 1
    /\ Len(config.NginxContainerNames) = 3
    /\ ~Touched

(***************************************************************************)
(* C23: concurrent calls of writeBlocklistFile on the same two maps, each  *)
(* with its own file, need no locking: a step of one call changes nothing  *)
(* of another call, no call panics, a call returns an error only when its  *)
(* own os.Create or Flush failed, and a call that returns without error    *)
(* has written the header, the entries a call on its own writes for these  *)
(* maps, and the footer.                                                   *)
(***************************************************************************)
C23_ConcurrentWritersIndependent ==
    /\ [][\A w \in Writers : \A v \in Writers \ {w} :
              procs'[w] # procs[w] => procs'[v] = procs[v]]_vars
    /\ [](\A w \in Writers :
              /\ procs[w].pc # "panicked"
              /\ procs[w].err <=> procs[w].ioFailed
              /\ (procs[w].pc = "returned" /\ ~procs[w].err) =>
                     /\ Entries(procs[w].file) = Emitted(whitelist, blocklist)
                     /\ Len(procs[w].file)
                            = Len(HeaderLines) + Cardinality(Emitted(whitelist, blocklist))
                                  + Len(FooterLines)
                     /\ SubSeq(procs[w].file, 1, Len(HeaderLines)) = HeaderLines)

\* both calls of the test have returned without error, and their files list
\* the two entries in different orders
C23_Witness ==
    /\ whitelist = ConcurrencyWhitelist
    /\ blocklist = ConcurrencyBlocklist
    /\ \A w \in Writers : procs[w].pc = "returned" /\ ~procs[w].err
    /\ procs["w1"].file # procs["w2"].file
    /\ Entries(procs["w1"].file) = blocklist

====
